---- MODULE Spec2Model ----
(***************************************************************************)
(* Model of the table/image search backend: the hybrid search engine       *)
(* (search_engines.py), the query strategy selector and result classifier  *)
(* (query_processor.py), the service's search, llm_search and initialize   *)
(* (service.py), the persisted index artifacts and the two search          *)
(* endpoints (main.py).                                                    *)
(*                                                                         *)
(* Numbers.  Weights are in tenths (0.7 is 7), confidences in hundredths   *)
(* (0.39 is 39) and fusion scores in units of 1/(10*Scale), so that        *)
(* weight * 1/(rank+1) is an exact integer; the code's IEEE doubles are    *)
(* modelled by these exact rationals.                                      *)
(*                                                                         *)
(* Items are content-item ids; the parser gives every item a distinct id   *)
(* (figure_<n>, table_<n>), so an id stands for its item.                  *)
(***************************************************************************)
EXTENDS Integers, Sequences, FiniteSets, TLC

VARIABLES
    semRanked,    \* vector index: items whose similarity to the query exceeds
                  \* SIMILARITY_THRESHOLD, in the order FAISS ranks them
    lexRanked,    \* lexical index: per query string, the items with a positive
                  \* BM25 score, in the order of the descending argsort
    hcall,        \* the last HybridSearchEngine.search call and what it returned
    analysis,     \* the analysis record analyze_query returns for the query
    scall,        \* the last determine_search_strategy call and its result
    initialized,  \* TableImageSearchService.initialized
    selector,     \* what the external result-selection call does when made
    lcall,        \* the last llm_search call, its stages and its response
    analyzerRaises, \* whether the external query-analysis call raises when made
    svc,          \* the last service.search call, its stages and its response
    disk,         \* the index artifacts under INDEX_PATH
    engine,       \* what the two search engines hold in memory
    icall,        \* the last initialize call of this process and how it ended
    sims,         \* similarity of the query to each stored vector, in hundredths
    ecall,        \* the last EmbeddingSearchEngine.search call and its result
    tokenScores,  \* BM25 score of the indexed token for each document, in hundredths
    kcall,        \* the last KeywordSearchEngine.search call and its result
    callers,      \* per concurrent caller, the query it has in flight and how far
                  \* its handler has come
    request       \* the last HTTP request to a search endpoint and its response

indexVars == <<semRanked, lexRanked>>

serviceVars == <<analyzerRaises, svc>>

storeVars == <<disk, engine, icall>>

embedVars == <<sims, ecall>>

keywordVars == <<tokenScores, kcall>>

frontVars == <<callers, request>>

vars == <<semRanked, lexRanked, hcall, analysis, scall, initialized, selector, lcall,
          analyzerRaises, svc, disk, engine, icall, sims, ecall, tokenScores, kcall,
          callers, request>>

----------------------------------------------------------------------------
(* Bounds of the model *)

\* items that can match a query in the fusion specification
NumRanked == 3
\* longest ranked list an engine holds for one query string
MaxHits == 2
\* largest k passed to HybridSearchEngine.search in the fusion specification
MaxK == 2
\* most items the vector index ranks above the threshold in the llm_search
\* specification
MaxMatches == 6
\* largest selected_index the external selector answers with
MaxSelIdx == 5
\* most content items the parser finds in the store specification
MaxContent == 2
\* most vectors the index holds in the embedding specification
NumVectors == 3
\* callers with a query in flight at the same time
NumCallers == 2

----------------------------------------------------------------------------
(* Generic helpers *)

Min(a, b) == IF a <= b THEN a ELSE b

Max(a, b) == IF a >= b THEN a ELSE b

RECURSIVE Gcd(_, _)
Gcd(a, b) == IF b = 0 THEN a ELSE Gcd(b, a % b)

RECURSIVE LcmUpTo(_)
LcmUpTo(n) == IF n <= 1 THEN 1 ELSE LET l == LcmUpTo(n - 1) IN (l * n) \div Gcd(l, n)

\* Python's seq[:k]
Take(seq, k) == SubSeq(seq, 1, Min(k, Len(seq)))

\* the ids held by a sequence of ids
Range(seq) == {seq[i] : i \in 1..Len(seq)}

\* 1-based position of x in an injective sequence holding it
IndexOf(seq, x) == CHOOSE i \in 1..Len(seq) : seq[i] = x

\* the injective sequences over S of length at most n
InjSeqs(S, n) ==
    {s \in UNION {[1..m -> S] : m \in 0..n} :
        \A i, j \in 1..Len(s) : i # j => s[i] # s[j]}

----------------------------------------------------------------------------
(* Program constants *)

\* max_results of every strategy (query_processor.py:118)
STRATEGY_MAX_RESULTS == 5

\* 1/(rank+1) is Scale \div (rank+1), exact for every rank a list can hold
Scale == LcmUpTo(Max(MaxK, STRATEGY_MAX_RESULTS))

\* the score 1.0
One == 10 * Scale

\* 1.0 / (rank + 1) for a 0-based rank, in units of 1/Scale
Recip(rank) == Scale \div (rank + 1)

----------------------------------------------------------------------------
(* search_engines.py *)

Items == 1..NumRanked

\* the raw query string and one other string the analyzer may extract
Strings == {"q", "t"}

\* EmbeddingSearchEngine.search: FAISS returns the k best items in descending
\* similarity; the loop keeps those whose score exceeds the threshold.
EmbeddingSearch(query, k) == Take(semRanked, k)

\* KeywordSearchEngine.search: the k best of the descending argsort, of which
\* the loop keeps those with a positive score.
KeywordSearch(query, k) == Take(lexRanked[query], k)

\* rrf_scores[item.id]['rrf_score'] += 1.0 / (rank + 1), the entry created
\* at the end of the insertion-ordered dict when the id is new
AddTermScore(acc, id, inc) ==
    IF \E i \in 1..Len(acc) : acc[i].id = id
    THEN [i \in 1..Len(acc) |->
            IF acc[i].id = id
            THEN [acc[i] EXCEPT !.rrf_score = @ + inc]
            ELSE acc[i]]
    ELSE Append(acc, [id |-> id, rrf_score |-> inc])

\* for rank, (item, _) in enumerate(term_result), from 1-based position p on
RECURSIVE AddTermResult(_, _, _)
AddTermResult(acc, lst, p) ==
    IF p > Len(lst) THEN acc
    ELSE AddTermResult(AddTermScore(acc, lst[p], 10 * Recip(p - 1)), lst, p + 1)

\* for term_result in term_results, from the t-th list on
RECURSIVE AddTermResults(_, _, _)
AddTermResults(acc, lists, t) ==
    IF t > Len(lists) THEN acc
    ELSE AddTermResults(AddTermResult(acc, lists[t], 1), lists, t + 1)

\* list.sort(key=score, reverse=True): stable, equal scores keep their order.
\* Insert e behind every element whose score is at least e's.
RECURSIVE InsertDesc(_, _)
InsertDesc(sorted, e) ==
    IF sorted = <<>> THEN <<e>>
    ELSE IF Head(sorted).rrf_score >= e.rrf_score
         THEN <<Head(sorted)>> \o InsertDesc(Tail(sorted), e)
         ELSE <<e>> \o sorted

RECURSIVE SortDescFrom(_, _, _)
SortDescFrom(sorted, seq, p) ==
    IF p > Len(seq) THEN sorted
    ELSE SortDescFrom(InsertDesc(sorted, seq[p]), seq, p + 1)

Reverse(seq) == [i \in 1..Len(seq) |-> seq[Len(seq) + 1 - i]]

\* an ascending sort that is then reversed: equal scores swap their order
SortDescReversed(seq) == SortDescFrom(<<>>, Reverse(seq), 1)

SortDesc(seq) == SortDescFrom(<<>>, seq, 1)

\* the raw query searched as one more term
KeywordResultsWithQuery(query, k, search_terms) ==
    IF search_terms # <<>>
    THEN LET searched == <<query>> \o search_terms
             term_results == [t \in 1..Len(searched) |->
                                 KeywordSearch(searched[t], k)]
             rrf_scores == AddTermResults(<<>>, term_results, 1)
         IN [list  |-> Take(SortDesc(rrf_scores), k),
             calls |-> searched]
    ELSE [list  |-> [i \in 1..Len(KeywordSearch(query, k)) |->
                        [id |-> KeywordSearch(query, k)[i], rrf_score |-> 0]],
          calls |-> <<query>>]

\* the keyword list of one call and the lexical searches it ran; the scores
\* of the raw-query list are BM25 scores, which the fusion does not read
KeywordResults(query, k, search_terms) ==
    IF search_terms # <<>>
    THEN LET term_results == [t \in 1..Len(search_terms) |->
                                 KeywordSearch(search_terms[t], k)]
             rrf_scores == AddTermResults(<<>>, term_results, 1)
         IN [list  |-> Take(SortDesc(rrf_scores), k),
             calls |-> search_terms]
    ELSE [list  |-> [i \in 1..Len(KeywordSearch(query, k)) |->
                        [id |-> KeywordSearch(query, k)[i], rrf_score |-> 0]],
          calls |-> <<query>>]

\* one step of the semantic loop: the entry is created with match_type
\* 'semantic' when the id is new, then its score grows by inc
UpsertSemantic(acc, id, inc) ==
    IF \E i \in 1..Len(acc) : acc[i].id = id
    THEN [i \in 1..Len(acc) |->
            IF acc[i].id = id
            THEN [acc[i] EXCEPT !.rrf_score = @ + inc]
            ELSE acc[i]]
    ELSE Append(acc, [id |-> id, rrf_score |-> inc, match_type |-> "semantic"])

\* for rank, (item, _) in enumerate(semantic_results), from position p on
RECURSIVE AddSemantic(_, _, _, _)
AddSemantic(acc, lst, weight, p) ==
    IF p > Len(lst) THEN acc
    ELSE AddSemantic(UpsertSemantic(acc, lst[p], weight * Recip(p - 1)),
                     lst, weight, p + 1)

\* the keyword loop assigning the contribution instead of adding it
UpsertKeywordAssign(acc, id, inc) ==
    IF \E i \in 1..Len(acc) : acc[i].id = id
    THEN [i \in 1..Len(acc) |->
            IF acc[i].id = id
            THEN [acc[i] EXCEPT !.rrf_score = inc, !.match_type = "hybrid"]
            ELSE acc[i]]
    ELSE Append(acc, [id |-> id, rrf_score |-> inc, match_type |-> "keyword"])

\* the keyword loop without its else branch: match_type is never 'hybrid'
UpsertKeywordNoHybrid(acc, id, inc) ==
    IF \E i \in 1..Len(acc) : acc[i].id = id
    THEN [i \in 1..Len(acc) |->
            IF acc[i].id = id
            THEN [acc[i] EXCEPT !.rrf_score = @ + inc]
            ELSE acc[i]]
    ELSE Append(acc, [id |-> id, rrf_score |-> inc, match_type |-> "keyword"])

\* one step of the keyword loop: the entry is created with match_type
\* 'keyword' when the id is new and becomes 'hybrid' otherwise, then its
\* score grows by inc
UpsertKeyword(acc, id, inc) ==
    IF \E i \in 1..Len(acc) : acc[i].id = id
    THEN [i \in 1..Len(acc) |->
            IF acc[i].id = id
            THEN [acc[i] EXCEPT !.rrf_score = @ + inc, !.match_type = "hybrid"]
            ELSE acc[i]]
    ELSE Append(acc, [id |-> id, rrf_score |-> inc, match_type |-> "keyword"])

\* for rank, (item, _) in enumerate(keyword_results), from position p on
RECURSIVE AddKeyword(_, _, _, _)
AddKeyword(acc, lst, weight, p) ==
    IF p > Len(lst) THEN acc
    ELSE AddKeyword(UpsertKeyword(acc, lst[p].id, weight * Recip(p - 1)),
                    lst, weight, p + 1)

\* the entries with rrf_score > 0, in dict order
RECURSIVE Positive(_)
Positive(seq) ==
    IF seq = <<>> THEN <<>>
    ELSE IF Head(seq).rrf_score > 0
         THEN <<Head(seq)>> \o Positive(Tail(seq))
         ELSE Positive(Tail(seq))

\* HybridSearchEngine.search
HybridSearch(query, k, semantic_weight, keyword_weight, search_terms) ==
    LET semantic_results == EmbeddingSearch(query, k)
        keyword == KeywordResults(query, k, search_terms)
        final_rrf_scores ==
            AddKeyword(AddSemantic(<<>>, semantic_results, semantic_weight, 1),
                       keyword.list, keyword_weight, 1)
        search_results == SortDesc(Positive(final_rrf_scores))
    IN [semantic |-> semantic_results,
        keyword  |-> keyword.list,
        calls    |-> keyword.calls,
        results  |-> Take(search_results, k)]

----------------------------------------------------------------------------
(* query_processor.py *)

\* analysis.get("confidence", 0.5)
DEFAULT_CONFIDENCE == 50

\* the threshold of the low-confidence override
LOW_CONFIDENCE == 60

\* an optional value: <<>> is None, <<v>> is v
Some(v) == <<v>>

None == <<>>

\* a confident analysis without terms or content type
PlainAnalysis ==
    [search_terms |-> <<>>, content_type |-> "any", intent |-> "",
     confidence |-> Some(90)]

\* str.lower() on one character; the letters the modelled queries capitalise
LowerChar(c) ==
    CASE c = "S" -> "s"
      [] c = "P" -> "p"
      [] c = "T" -> "t"
      [] c = "I" -> "i"
      [] OTHER -> c

\* query.lower(), from the i-th character on
RECURSIVE Lower(_, _)
Lower(text, i) ==
    IF i > Len(text) THEN ""
    ELSE LowerChar(SubSeq(text, i, i)) \o Lower(text, i + 1)

\* word in query_lower: the substring test of Python's "in" on strings
Contains(text, word) ==
    \E i \in 1..(Len(text) - Len(word) + 1) : SubSeq(text, i, i + Len(word) - 1) = word

\* \w of the regular expression; the modelled queries are letters and blanks
IsWordChar(c) == c # " "

\* the shortest run of word characters the regular expression \b\w{3,}\b takes
MIN_KEYWORD_LENGTH == 3

\* the fallback keeps keywords[:10]
MAX_FALLBACK_TERMS == 10

\* the confidence of the fallback analysis
FALLBACK_ANALYSIS_CONFIDENCE == 50

\* the intent names keywords[:3]
INTENT_KEYWORDS == 3

\* re.findall(r'\b\w{3,}\b', text) from the i-th character on, cur being the
\* run of word characters read so far
RECURSIVE FindWords(_, _, _)
FindWords(text, i, cur) ==
    LET run == IF Len(cur) >= MIN_KEYWORD_LENGTH THEN <<cur>> ELSE <<>>
    IN IF i > Len(text) THEN run
       ELSE IF IsWordChar(SubSeq(text, i, i))
            THEN FindWords(text, i + 1, cur \o SubSeq(text, i, i))
            ELSE run \o FindWords(text, i + 1, "")

StopWords == {"the", "and", "for", "can", "you", "show", "need"}

\* [k for k in keywords if k not in [...]]
RECURSIVE WithoutStopWords(_)
WithoutStopWords(words) ==
    IF words = <<>> THEN <<>>
    ELSE IF Head(words) \in StopWords
         THEN WithoutStopWords(Tail(words))
         ELSE <<Head(words)>> \o WithoutStopWords(Tail(words))

\* ', '.join(words)
RECURSIVE Join(_)
Join(words) ==
    IF words = <<>> THEN ""
    ELSE IF Len(words) = 1 THEN Head(words)
         ELSE Head(words) \o ", " \o Join(Tail(words))

TableWords == {"table", "comparison", "factors", "values"}

FigureWords == {"figure", "diagram", "drawing", "shows", "image"}

\* the fallback returning every keyword it extracted
FallbackAnalysisUntruncated(query) ==
    LET query_lower == Lower(query, 1)
        keywords == WithoutStopWords(FindWords(query_lower, 1, ""))
    IN [search_terms |-> keywords,
        content_type |-> IF \E w \in TableWords : Contains(query_lower, w)
                         THEN "table"
                         ELSE IF \E w \in FigureWords : Contains(query_lower, w)
                              THEN "figure" ELSE "any",
        intent       |-> IF keywords # <<>>
                         THEN "User looking for content related to: "
                                  \o Join(Take(keywords, INTENT_KEYWORDS))
                         ELSE "General search query",
        confidence   |-> Some(FALLBACK_ANALYSIS_CONFIDENCE)]

\* QueryProcessor._fallback_analysis
FallbackAnalysis(query) ==
    LET query_lower == Lower(query, 1)
        keywords == WithoutStopWords(FindWords(query_lower, 1, ""))
    IN [search_terms |-> Take(keywords, MAX_FALLBACK_TERMS),
        content_type |-> IF \E w \in TableWords : Contains(query_lower, w)
                         THEN "table"
                         ELSE IF \E w \in FigureWords : Contains(query_lower, w)
                              THEN "figure" ELSE "any",
        intent       |-> IF keywords # <<>>
                         THEN "User looking for content related to: "
                                  \o Join(Take(keywords, INTENT_KEYWORDS))
                         ELSE "General search query",
        confidence   |-> Some(FALLBACK_ANALYSIS_CONFIDENCE)]

\* QueryProcessor.analyze_query: the external call's answer, or the fallback
\* when the call raises
AnalyzeQuery(query) ==
    IF analyzerRaises THEN FallbackAnalysis(query) ELSE analysis

\* a threshold slip: <= for <
IsLowConfidenceInclusive(confidence) == confidence <= LOW_CONFIDENCE

\* a threshold of 0.5 for 0.6
IsLowConfidenceBelowHalf(confidence) == confidence < DEFAULT_CONFIDENCE

\* if confidence < 0.6
IsLowConfidence(confidence) == confidence < LOW_CONFIDENCE

\* a low-confidence branch that raises the semantic weight and forgets to
\* lower the keyword weight
DetermineSearchStrategyUnbalanced(a) ==
    LET confidence == IF a.confidence = None THEN DEFAULT_CONFIDENCE
                      ELSE a.confidence[1]
        keyword_weight == IF a.search_terms # <<>> THEN 6 ELSE 7
    IN [semantic_weight     |-> IF IsLowConfidence(confidence) THEN 8
                                ELSE 10 - keyword_weight,
        keyword_weight      |-> keyword_weight,
        max_results         |-> STRATEGY_MAX_RESULTS,
        content_type_filter |-> IF a.content_type # "any" THEN Some(a.content_type)
                                ELSE None,
        search_terms        |-> a.search_terms,
        intent              |-> a.intent]

\* QueryProcessor.determine_search_strategy
DetermineSearchStrategy(a) ==
    LET confidence == IF a.confidence = None THEN DEFAULT_CONFIDENCE
                      ELSE a.confidence[1]
        content_type == a.content_type
        search_terms == a.search_terms
        by_terms == IF search_terms # <<>>
                    THEN [semantic_weight |-> 4, keyword_weight |-> 6]
                    ELSE [semantic_weight |-> 3, keyword_weight |-> 7]
        weights == IF IsLowConfidence(confidence)
                   THEN [semantic_weight |-> 8, keyword_weight |-> 2]
                   ELSE by_terms
    IN [semantic_weight     |-> weights.semantic_weight,
        keyword_weight      |-> weights.keyword_weight,
        max_results         |-> STRATEGY_MAX_RESULTS,
        content_type_filter |-> IF content_type # "any" THEN Some(content_type)
                                ELSE None,
        search_terms        |-> search_terms,
        intent              |-> a.intent]

\* below this confidence a selection is insufficient_info
MIN_CONFIDENCE == 40

\* from this confidence on a selection is a strong match
HIGH_CONFIDENCE == 80

\* llm_result.get("confidence", 0.5)
DEFAULT_SELECTION_CONFIDENCE == 50

\* alternatives are looked for among the indices i < 3
ALTERNATIVE_WINDOW == 3

\* the confidence of the fallback selection
FALLBACK_CONFIDENCE == 30

\* [i for i in range(len(search_results)) if i != selected_index and i < 3],
\* from index i on, n being len(search_results)
RECURSIVE AlternativeIndices(_, _, _)
AlternativeIndices(i, n, selected_index) ==
    IF i >= n THEN <<>>
    ELSE (IF i # selected_index /\ i < ALTERNATIVE_WINDOW THEN <<i>> ELSE <<>>)
         \o AlternativeIndices(i + 1, n, selected_index)

\* the fallback reported with the default confidence instead of 0.3
FallbackResultSelectionDefault(search_results) ==
    [status              |-> "success",
     selected_index      |-> Some(0),
     alternative_indices |-> <<>>,
     reasoning           |-> "LLM failed, using top result",
     confidence          |-> DEFAULT_SELECTION_CONFIDENCE]

\* QueryProcessor._fallback_result_selection
FallbackResultSelection(search_results) ==
    [status              |-> "success",
     selected_index      |-> Some(0),
     alternative_indices |-> <<>>,
     reasoning           |-> "LLM failed, using top result",
     confidence          |-> FALLBACK_CONFIDENCE]

\* the fallback's 0.3 taken for the 0.4 threshold
IsInsufficientBelowFallback(selected_index, confidence) ==
    selected_index = None \/ confidence < FALLBACK_CONFIDENCE

\* a threshold slip: <= for <
IsInsufficientInclusive(selected_index, confidence) ==
    selected_index = None \/ confidence <= MIN_CONFIDENCE

\* if selected_index is None or confidence < 0.4
IsInsufficient(selected_index, confidence) ==
    selected_index = None \/ confidence < MIN_CONFIDENCE

\* a threshold slip: > for >=
IsStrongExclusive(confidence) == confidence > HIGH_CONFIDENCE

\* elif confidence >= 0.8
IsStrong(confidence) == confidence >= HIGH_CONFIDENCE

\* QueryProcessor.select_best_result_with_llm; sel is what the external call
\* does: it raises, or it answers selected_index (None or an integer >= 0, as
\* RESULT_SELECTION_SCHEMA has it) and confidence
SelectBestResultWithLlm(search_results, sel) ==
    IF search_results = <<>>
    THEN [status              |-> "insufficient_info",
          selected_index      |-> None,
          alternative_indices |-> <<>>,
          reasoning           |-> "No results to evaluate",
          confidence          |-> 0]
    ELSE IF sel.raises
    THEN FallbackResultSelection(search_results)
    ELSE LET selected_index == sel.selected_index
             confidence == IF sel.confidence = None
                           THEN DEFAULT_SELECTION_CONFIDENCE
                           ELSE sel.confidence[1]
         IN IF IsInsufficient(selected_index, confidence)
            THEN [status              |-> "insufficient_info",
                  selected_index      |-> None,
                  alternative_indices |-> <<>>,
                  reasoning           |-> "LLM found no confident match",
                  confidence          |-> confidence]
            ELSE IF IsStrong(confidence)
            THEN [status              |-> "success",
                  selected_index      |-> selected_index,
                  alternative_indices |-> <<>>,
                  reasoning           |-> "LLM found a strong match",
                  confidence          |-> confidence]
            ELSE LET alternatives ==
                         AlternativeIndices(0, Len(search_results), selected_index[1])
                 IN [status              |-> IF alternatives # <<>>
                                             THEN "multiple_candidates"
                                             ELSE "success",
                     selected_index      |-> selected_index,
                     alternative_indices |-> alternatives,
                     reasoning           |-> IF alternatives # <<>>
                                             THEN "LLM found a good match with alternatives available"
                                             ELSE "LLM found a good match",
                     confidence          |-> confidence]

----------------------------------------------------------------------------
(* service.py *)

\* Config.MAX_RESULTS
CONFIG_MAX_RESULTS == 10

\* llm_search: max_results=query.max_results or 10
LLM_DEFAULT_MAX_RESULTS == 10

\* ContentItem.content_type: the parser numbers figures and tables; here the
\* odd ids are figures and the even ids tables
ContentTypeOf(id) == IF id % 2 = 1 THEN "figure" ELSE "table"

\* Python's "x or d" for an optional integer: None and 0 are falsy
OrDefault(opt, d) == IF opt = None \/ opt[1] = 0 THEN d ELSE opt[1]

\* the entries of a result list whose item has the content type, in order
RECURSIVE OfContentType(_, _)
OfContentType(seq, ct) ==
    IF seq = <<>> THEN <<>>
    ELSE IF ContentTypeOf(Head(seq).id) = ct
         THEN <<Head(seq)>> \o OfContentType(Tail(seq), ct)
         ELSE OfContentType(Tail(seq), ct)

ErrorSearchResponse == [status |-> "error", results |-> <<>>, total_found |-> 0]

\* the lists of a hybrid search that did not take place
NoHybridResult == [semantic |-> <<>>, keyword |-> <<>>, calls |-> <<>>, results |-> <<>>]

\* k=min(query.max_results or self.config.MAX_RESULTS, strategy["max_results"])
HybridK(max_results, strategy) ==
    Min(OrDefault(max_results, CONFIG_MAX_RESULTS), strategy.max_results)

\* the filter applied to the wrong type
ApplyContentTypeFilterInverted(found, strategy) ==
    IF strategy.content_type_filter # None
    THEN OfContentType(found, IF strategy.content_type_filter[1] = "table"
                              THEN "figure" ELSE "table")
    ELSE found

\* if strategy.get("content_type_filter"): keep the results of that type
ApplyContentTypeFilter(found, strategy) ==
    IF strategy.content_type_filter # None
    THEN OfContentType(found, strategy.content_type_filter[1])
    ELSE found

\* an empty result list reported as an error
SearchStatusErrorOnEmpty(search_results) ==
    IF search_results = <<>> THEN "error" ELSE "success"

\* status = "success", or "insufficient_info" if not search_results
SearchStatus(search_results) ==
    IF search_results = <<>> THEN "insufficient_info" ELSE "success"

\* search from the hybrid search's results on: the filter and the response
SearchRespond(found, strategy) ==
    LET search_results == ApplyContentTypeFilter(found, strategy)
    IN [status      |-> SearchStatus(search_results),
        results     |-> search_results,
        total_found |-> Len(search_results)]

\* search from the strategy on: the hybrid search, the filter and the
\* response; FAISS refuses k < 1, which the handler's except turns into
\* status error
SearchWithStrategy(query, max_results, a, strategy) ==
    LET k == HybridK(max_results, strategy)
    IN IF k < 1
       THEN [invoked |-> {"analyzer", "engines"}, analysis |-> a,
             strategy |-> strategy, k |-> k,
             raised |-> TRUE, found |-> NoHybridResult, response |-> ErrorSearchResponse]
       ELSE LET found == HybridSearch(query, k, strategy.semantic_weight,
                                      strategy.keyword_weight,
                                      strategy.search_terms)
            IN [invoked  |-> {"analyzer", "engines"}, analysis |-> a,
                strategy |-> strategy, k |-> k,
                raised   |-> FALSE, found |-> found,
                response |-> SearchRespond(found.results, strategy)]

\* search from the analysis on
SearchWithAnalysis(query, max_results, a) ==
    SearchWithStrategy(query, max_results, a, DetermineSearchStrategy(a))

\* a search that answers before initialization as if the indices were empty
SearchStagesUnguarded(query, max_results) ==
    SearchWithAnalysis(query, max_results, AnalyzeQuery(query))

\* TableImageSearchService.search for the query text and the caller's
\* max_results: the components the call invoked, the analysis it used, the k
\* and the result of the hybrid search, whether the try block raised, and
\* the SearchResponse
SearchStages(query, max_results) ==
    IF ~initialized
    THEN [invoked |-> {}, analysis |-> PlainAnalysis,
          strategy |-> DetermineSearchStrategy(PlainAnalysis), k |-> 0,
          raised |-> FALSE, found |-> NoHybridResult, response |-> ErrorSearchResponse]
    ELSE SearchWithAnalysis(query, max_results, AnalyzeQuery(query))

\* the SearchResponse of TableImageSearchService.search
ServiceSearch(query, max_results) == SearchStages(query, max_results).response

\* the classifier's dict before the selection stage ran
NoSelection ==
    [status |-> "none", selected_index |-> None, alternative_indices |-> <<>>,
     reasoning |-> "", confidence |-> 0]

\* results[:3] without the entry at 0-based index skip, from 0-based index i on
RECURSIVE TopAlternatives(_, _, _)
TopAlternatives(results, skip, i) ==
    IF i >= Min(ALTERNATIVE_WINDOW, Len(results)) THEN <<>>
    ELSE (IF i # skip THEN <<results[i + 1].id>> ELSE <<>>)
         \o TopAlternatives(results, skip, i + 1)

ErrorLlmResponse ==
    [status |-> "error", selected_result |-> None, alternative_candidates |-> <<>>,
     llm_reasoning |-> None, confidence_score |-> None]

\* an llm_search that takes the last result when the index is beyond the list
LlmRespondClamped(results, llm_result) ==
    IF llm_result.status = "insufficient_info"
    THEN [status |-> "insufficient_info",
          selected_result |-> None,
          alternative_candidates |-> <<>>,
          llm_reasoning |-> Some(llm_result.reasoning),
          confidence_score |-> Some(llm_result.confidence)]
    ELSE [status |-> llm_result.status,
          selected_result |->
              IF llm_result.selected_index # None
              THEN Some(results[Min(llm_result.selected_index[1] + 1, Len(results))].id)
              ELSE None,
          alternative_candidates |->
              IF llm_result.status = "multiple_candidates"
              THEN TopAlternatives(results, llm_result.selected_index[1], 0)
              ELSE <<>>,
          llm_reasoning |-> Some(llm_result.reasoning),
          confidence_score |-> Some(llm_result.confidence)]

\* llm_search from the classifier's dict on: the LLMSearchResponse for the
\* search results and llm_result
LlmRespond(results, llm_result) ==
    IF llm_result.status = "insufficient_info"
    THEN [status |-> "insufficient_info",
          selected_result |-> None,
          alternative_candidates |-> <<>>,
          llm_reasoning |-> Some(llm_result.reasoning),
          confidence_score |-> Some(llm_result.confidence)]
    ELSE IF llm_result.selected_index # None
            /\ llm_result.selected_index[1] >= Len(results)
    THEN ErrorLlmResponse  \* results.results[selected_index] raises IndexError
    ELSE [status |-> llm_result.status,
          selected_result |->
              IF llm_result.selected_index # None
              THEN Some(results[llm_result.selected_index[1] + 1].id)
              ELSE None,
          alternative_candidates |->
              IF llm_result.status = "multiple_candidates"
              THEN TopAlternatives(results, llm_result.selected_index[1], 0)
              ELSE <<>>,
          llm_reasoning |-> Some(llm_result.reasoning),
          confidence_score |-> Some(llm_result.confidence)]

\* llm_search once the selector has been consulted
LlmSelected(search, llm_result) ==
    [search |-> search, selected |-> TRUE, llm_result |-> llm_result,
     response |-> LlmRespond(search.results, llm_result)]

\* llm_search from the search response on
LlmAfterSearch(search) ==
    IF search.results = <<>>
    THEN [search |-> search, selected |-> FALSE, llm_result |-> NoSelection,
          response |-> [status |-> "insufficient_info",
                        selected_result |-> None,
                        alternative_candidates |-> <<>>,
                        llm_reasoning |-> None,
                        confidence_score |-> Some(0)]]
    ELSE LlmSelected(search, SelectBestResultWithLlm(search.results, selector))

\* reading an artifact succeeds when the file exists, was written completely
\* and the read itself does not fail
FileLoads(file, failing) == file # None /\ file[1].complete /\ ~failing

\* EmbeddingSearchEngine.load_index: the index is assigned as soon as the
\* .faiss file is read, the items when the metadata file is read; any
\* exception makes it return False
EmbeddingLoadIndex(e, d, fault) ==
    IF ~FileLoads(d.faiss, fault = "faiss")
    THEN [engine |-> e, ok |-> FALSE]
    ELSE LET read == [e EXCEPT !.index = Some(d.faiss[1].build)]
         IN IF ~FileLoads(d.metadata, fault = "metadata")
            THEN [engine |-> read, ok |-> FALSE]
            ELSE [engine |-> [read EXCEPT !.content_items = d.metadata[1].build],
                  ok |-> TRUE]

\* KeywordSearchEngine.load_index: one pickle holds the items and the BM25
\* object
KeywordLoadIndex(e, d, fault) ==
    IF ~FileLoads(d.keyword, fault = "keyword")
    THEN [engine |-> e, ok |-> FALSE]
    ELSE [engine |-> [e EXCEPT !.bm25 = Some(d.keyword[1].build),
                                !.keyword_items = d.keyword[1].build],
          ok |-> TRUE]

\* a load that is content with one of the two indices
LoadedEither(embedding_loaded, keyword_loaded) == embedding_loaded \/ keyword_loaded

\* return embedding_loaded and keyword_loaded
LoadedBoth(embedding_loaded, keyword_loaded) == embedding_loaded /\ keyword_loaded

\* HybridSearchEngine.load_indices: both loads run, whatever the first returns
LoadIndices(e, d, fault) ==
    LET embedding == EmbeddingLoadIndex(e, d, fault)
        keyword == KeywordLoadIndex(embedding.engine, d, fault)
    IN [engine |-> keyword.engine,
        embedding_loaded |-> embedding.ok,
        keyword_loaded |-> keyword.ok,
        ok |-> LoadedBoth(embedding.ok, keyword.ok)]

\* EmbeddingSearchEngine.build_index: the items are assigned first; without
\* embeddings it raises before an index exists
EmbeddingBuildIndex(e, content_items) ==
    IF content_items = <<>>
    THEN [engine |-> [e EXCEPT !.content_items = content_items], raised |-> TRUE]
    ELSE [engine |-> [e EXCEPT !.content_items = content_items,
                                !.index = Some(content_items)],
          raised |-> FALSE]

\* KeywordSearchEngine.build_index; BM25Okapi divides by the corpus size
KeywordBuildIndex(e, content_items) ==
    IF content_items = <<>>
    THEN [engine |-> [e EXCEPT !.keyword_items = content_items], raised |-> TRUE]
    ELSE [engine |-> [e EXCEPT !.keyword_items = content_items,
                                !.bm25 = Some(content_items)],
          raised |-> FALSE]

\* HybridSearchEngine.build_index
BuildIndex(e, content_items) ==
    LET embedding == EmbeddingBuildIndex(e, content_items)
    IN IF embedding.raised THEN embedding
       ELSE KeywordBuildIndex(embedding.engine, content_items)

\* an artifact written to its end, and one whose write was cut short
Written(build) == Some([complete |-> TRUE, build |-> build])

HalfWritten(build) == Some([complete |-> FALSE, build |-> build])

\* the points at which a save can be cut short: in or after the write of
\* the .faiss file, in or after the write of the metadata file, in the
\* write of the keyword file
StopPoints ==
    {"none", "in_faiss", "after_faiss", "in_metadata", "after_metadata", "in_keyword"}

\* HybridSearchEngine.save_indices, cut short at stop: the embedding engine
\* writes the .faiss file and then the metadata file, the keyword engine its
\* pickle; each write replaces the file in place
SaveIndices(e, d, stop) ==
    LET faiss == IF e.index # None THEN Written(e.index[1]) ELSE d.faiss
        metadata == IF e.index # None THEN Written(e.content_items) ELSE d.metadata
        keyword == IF e.bm25 # None THEN Written(e.bm25[1]) ELSE d.keyword
    IN CASE stop = "in_faiss" ->
                [d EXCEPT !.faiss = HalfWritten(e.index[1])]
         [] stop = "after_faiss" ->
                [d EXCEPT !.faiss = faiss]
         [] stop = "in_metadata" ->
                [d EXCEPT !.faiss = faiss, !.metadata = HalfWritten(e.content_items)]
         [] stop = "after_metadata" ->
                [d EXCEPT !.faiss = faiss, !.metadata = metadata]
         [] stop = "in_keyword" ->
                [faiss |-> faiss, metadata |-> metadata, keyword |-> HalfWritten(e.bm25[1])]
         [] OTHER ->
                [faiss |-> faiss, metadata |-> metadata, keyword |-> keyword]

\* an initialize that falls through to self.initialized = True without items
NoContentFoundIgnored(e, d) ==
    [engine |-> e, disk |-> d, initialized |-> TRUE, outcome |-> "built"]

\* raise ValueError("No content items found during parsing")
NoContentFound(e, d) ==
    [engine |-> e, disk |-> d, initialized |-> FALSE, outcome |-> "raised"]

\* the build path of initialize: build both indices from the parsed items
\* and save them
BuildAndSave(e, d, content, stop) ==
    IF content # <<>>
    THEN LET built == BuildIndex(e, content)
         IN IF built.raised
            THEN [engine |-> built.engine, disk |-> d, initialized |-> FALSE,
                  outcome |-> "raised"]
            ELSE [engine      |-> built.engine,
                  disk        |-> SaveIndices(built.engine, d, stop),
                  initialized |-> stop = "none",
                  outcome     |-> IF stop = "none" THEN "built" ELSE "interrupted"]
    ELSE NoContentFound(e, d)

\* an initialize that catches the parser's exception and goes on to
\* self.initialized = True
ParseFailureSwallowed(e, d) ==
    [engine |-> e, disk |-> d, initialized |-> TRUE, outcome |-> "loaded"]

\* _parse_content raises: the exception leaves initialize where it is
ParseFailed(e, d) ==
    [engine |-> e, disk |-> d, initialized |-> FALSE, outcome |-> "parse_raised"]

\* TableImageSearchService.initialize on the artifacts d; parsed is None when
\* the parser raises and else holds the items it finds, fault is the file
\* whose read fails for a reason other than its state, stop the point at
\* which the save is cut short
Initialize(e, d, parsed, fault, stop) ==
    LET attempted == d.faiss # None /\ d.keyword # None
        loaded == IF attempted THEN LoadIndices(e, d, fault)
                  ELSE [engine |-> e, embedding_loaded |-> FALSE,
                        keyword_loaded |-> FALSE, ok |-> FALSE]
        run == IF parsed = None THEN ParseFailed(loaded.engine, d)
               ELSE IF attempted /\ loaded.ok
               THEN [engine |-> loaded.engine, disk |-> d, initialized |-> TRUE,
                     outcome |-> "loaded"]
               ELSE BuildAndSave(loaded.engine, d, parsed[1], stop)
    IN [engine |-> run.engine, disk |-> run.disk, initialized |-> run.initialized,
        outcome |-> run.outcome, attempted_load |-> attempted,
        embedding_loaded |-> loaded.embedding_loaded,
        keyword_loaded |-> loaded.keyword_loaded]

\* Config.SIMILARITY_THRESHOLD, in hundredths
SIMILARITY_THRESHOLD == 70

\* a threshold slip: >= for >
AtLeastThreshold(score) == score >= SIMILARITY_THRESHOLD

\* score > self.config.SIMILARITY_THRESHOLD
AboveThreshold(score) == score > SIMILARITY_THRESHOLD

\* the loop over zip(scores[0], indices[0]) from the p-th pair on: the pairs
\* whose index is one of the engine's items and whose score exceeds the
\* threshold, in the order FAISS returned them
RECURSIVE KeepAboveThreshold(_, _, _, _)
KeepAboveThreshold(e, scores, indices, p) ==
    IF p > Len(indices) THEN <<>>
    ELSE (IF indices[p] <= Len(e.content_items) /\ AboveThreshold(scores[indices[p]])
          THEN <<[item |-> e.content_items[indices[p]], score |-> scores[indices[p]]]>>
          ELSE <<>>)
         \o KeepAboveThreshold(e, scores, indices, p + 1)

\* EmbeddingSearchEngine.search with the scores the query has against the
\* stored vectors; order is the descending order in which FAISS ranks the
\* vectors (its order among equal scores is not specified), of which it
\* returns the first k, padding with index -1 and the lowest score, which
\* the loop drops, when it holds fewer
EmbeddingSearchScored(e, scores, order, k) ==
    IF e.index = None THEN <<>>
    ELSE KeepAboveThreshold(e, scores, Take(order, k), 1)

\* the white space of str.strip() and str.split() that the modelled texts hold
IsSpace(c) == c \in {" ", "\n", "\t"}

\* text.replace("\n", " "), from the i-th character on
RECURSIVE ReplaceNewlines(_, _)
ReplaceNewlines(text, i) ==
    IF i > Len(text) THEN ""
    ELSE (IF SubSeq(text, i, i) = "\n" THEN " " ELSE SubSeq(text, i, i))
         \o ReplaceNewlines(text, i + 1)

\* str.strip(): the text from its i-th to its j-th character without the
\* white space at either end
RECURSIVE StripBetween(_, _, _)
StripBetween(text, i, j) ==
    IF i > j THEN ""
    ELSE IF IsSpace(SubSeq(text, i, i)) THEN StripBetween(text, i + 1, j)
    ELSE IF IsSpace(SubSeq(text, j, j)) THEN StripBetween(text, i, j - 1)
    ELSE SubSeq(text, i, j)

Strip(text) == StripBetween(text, 1, Len(text))

\* get_embedding without its early return: the model is asked whatever the
\* cleaned text is
GetEmbeddingAlwaysEncodes(text, model_raises) ==
    [zero |-> model_raises, encoded |-> TRUE]

\* EmbeddingSearchEngine.get_embedding: whether the vector returned is the
\* zero vector and whether the sentence-transformer model was asked to
\* encode; model_raises is whether model.encode raises when asked
GetEmbedding(text, model_raises) ==
    LET cleaned_text == Strip(ReplaceNewlines(text, 1))
    IN IF cleaned_text = "" THEN [zero |-> TRUE, encoded |-> FALSE]
       ELSE IF model_raises THEN [zero |-> TRUE, encoded |-> TRUE]
       ELSE [zero |-> FALSE, encoded |-> TRUE]

\* the inner products index.search computes for a query embedding: model_sims
\* are those of the vector the model returns for the query, and the zero
\* vector, which faiss.normalize_L2 leaves as it is, has inner product 0
\* with every stored vector
QuerySimilarities(embedding, model_sims) ==
    IF embedding.zero THEN [i \in 1..Len(model_sims) |-> 0] ELSE model_sims

\* text.lower().split() from the i-th character of the lowered text on, cur
\* being the run of non-blank characters read so far
RECURSIVE SplitWords(_, _, _)
SplitWords(text, i, cur) ==
    LET run == IF cur # "" THEN <<cur>> ELSE <<>>
    IN IF i > Len(text) THEN run
       ELSE IF IsSpace(SubSeq(text, i, i))
            THEN run \o SplitWords(text, i + 1, "")
            ELSE SplitWords(text, i + 1, cur \o SubSeq(text, i, i))

\* KeywordSearchEngine.tokenize
Tokenize(text) == SplitWords(Lower(text, 1), 1, "")

\* the one token the indexed titles hold; every other token has score 0
INDEXED_TOKEN == "pump"

\* self.bm25.get_scores(query_tokens): per document the sum, over the query
\* tokens from the p-th on, of the token's score for the document;
\* token_scores are the documents' scores for INDEXED_TOKEN
RECURSIVE Bm25GetScores(_, _, _)
Bm25GetScores(token_scores, query_tokens, p) ==
    IF p > Len(query_tokens) THEN [i \in 1..Len(token_scores) |-> 0]
    ELSE LET rest == Bm25GetScores(token_scores, query_tokens, p + 1)
         IN [i \in 1..Len(token_scores) |->
                (IF query_tokens[p] = INDEXED_TOKEN THEN token_scores[i] ELSE 0)
                + rest[i]]

\* np.argsort(scores): the orders that are ascending in score; the default
\* sort kind is not stable, so any order among equal scores can come out
ArgSorts(scores) ==
    {o \in [1..Len(scores) -> 1..Len(scores)] :
        /\ \A i, j \in 1..Len(scores) : i # j => o[i] # o[j]
        /\ \A i \in 1..(Len(scores) - 1) : scores[o[i]] <= scores[o[i + 1]]}

\* the loop over top_indices from the p-th on: the documents that are among
\* the engine's items and have a positive score
RECURSIVE KeepPositive(_, _, _, _)
KeepPositive(e, scores, top_indices, p) ==
    IF p > Len(top_indices) THEN <<>>
    ELSE (IF top_indices[p] <= Len(e.keyword_items) /\ scores[top_indices[p]] > 0
          THEN <<[item |-> e.keyword_items[top_indices[p]],
                  score |-> scores[top_indices[p]]]>>
          ELSE <<>>)
         \o KeepPositive(e, scores, top_indices, p + 1)

\* KeywordSearchEngine.search given the scores get_scores returns and the
\* order argsort puts them in: the first k of the reversed order, of which
\* the positive ones are kept
KeywordSearchScored(e, scores, argsort, k) ==
    IF e.bm25 = None THEN <<>>
    ELSE KeepPositive(e, scores, Take(Reverse(argsort), k), 1)

\* TableImageSearchService.llm_search: the stages of one call (the search
\* response, whether the selector was consulted, the classifier's dict) and
\* the LLMSearchResponse
LlmSearch(query, max_results) ==
    IF ~initialized
    THEN [search |-> ErrorSearchResponse, selected |-> FALSE,
          llm_result |-> NoSelection, response |-> ErrorLlmResponse]
    ELSE LlmAfterSearch(
             ServiceSearch(query, Some(OrDefault(max_results, LLM_DEFAULT_MAX_RESULTS))))

\* the components one llm_search call invokes: those of its search call, and
\* the selector when the call reaches it
LlmInvoked(query, max_results) ==
    IF ~initialized THEN {}
    ELSE SearchStages(query, Some(OrDefault(max_results, LLM_DEFAULT_MAX_RESULTS))).invoked
         \cup (IF LlmSearch(query, max_results).selected THEN {"selector"} ELSE {})

----------------------------------------------------------------------------
(* Values of the variables a specification does not use *)

NoCall ==
    [called |-> FALSE, query |-> "q", k |-> 1, semantic_weight |-> 0,
     keyword_weight |-> 0, search_terms |-> <<>>,
     semantic |-> <<>>, keyword |-> <<>>, calls |-> <<>>, results |-> <<>>]

NoStrategyCall ==
    [called |-> FALSE, strategy |-> DetermineSearchStrategy(PlainAnalysis)]

NoSelector == [raises |-> FALSE, selected_index |-> None, confidence |-> Some(0)]

NoLlmCall ==
    [called |-> FALSE, max_results |-> None, search |-> ErrorSearchResponse,
     selected |-> FALSE, llm_result |-> NoSelection, response |-> ErrorLlmResponse,
     invoked |-> {}]

NoSearchCall ==
    [called |-> FALSE, query |-> "q", max_results |-> None, invoked |-> {},
     analysis |-> PlainAnalysis, strategy |-> DetermineSearchStrategy(PlainAnalysis),
     k |-> 0, raised |-> FALSE, found |-> NoHybridResult,
     response |-> ErrorSearchResponse]

\* no artifact under INDEX_PATH
EmptyDisk == [faiss |-> None, metadata |-> None, keyword |-> None]

\* the engines as their constructors leave them
NoEngine == [index |-> None, content_items |-> <<>>, bm25 |-> None, keyword_items |-> <<>>]

\* initialize has not been called in this process
NoInitialize ==
    [outcome |-> "none", attempted_load |-> FALSE, embedding_loaded |-> FALSE,
     keyword_loaded |-> FALSE, parsed |-> FALSE, content |-> <<>>,
     before |-> EmptyDisk]

NoEmbeddingCall ==
    [called |-> FALSE, query |-> "", k |-> 1,
     embedding |-> [zero |-> TRUE, encoded |-> FALSE], results |-> <<>>]

NoKeywordCall == [called |-> FALSE, query |-> "", k |-> 1, results |-> <<>>]

IdleService == analyzerRaises = FALSE /\ svc = NoSearchCall

IdleStore == disk = EmptyDisk /\ engine = NoEngine /\ icall = NoInitialize

IdleEmbed == sims = <<>> /\ ecall = NoEmbeddingCall

IdleKeyword == tokenScores = <<>> /\ kcall = NoKeywordCall

\* a caller with no query in flight
NoQuery ==
    [pc |-> "idle", kind |-> "search", query |-> "q", max_results |-> None,
     analysis |-> PlainAnalysis, strategy |-> DetermineSearchStrategy(PlainAnalysis),
     raised |-> FALSE, found |-> NoHybridResult, search |-> ErrorSearchResponse,
     response |-> ErrorSearchResponse]

\* no request has been made
NoRequest ==
    [called |-> FALSE, endpoint |-> "/search", query |-> "q", max_results |-> None,
     status_code |-> 0, detail |-> "", service_called |-> FALSE,
     body |-> None]

IdleFront == callers = <<>> /\ request = NoRequest

----------------------------------------------------------------------------
(* The fusion specification: a built index and calls of                    *)
(* HybridSearchEngine.search on it                                         *)

\* semantic_weight, keyword_weight in tenths: the default of search, a pair
\* determine_search_strategy returns, and an even pair
WeightPairs == {<<7, 3>>, <<4, 6>>, <<5, 5>>}

TermLists == {<<>>, <<"t">>, <<"q", "t">>, <<"t", "q">>}

InitFusion ==
    /\ semRanked \in {[i \in 1..m |-> i] : m \in 0..MaxHits}
    /\ lexRanked \in [Strings -> InjSeqs(Items, MaxHits)]
    /\ hcall = NoCall
    /\ analysis = PlainAnalysis
    /\ scall = NoStrategyCall
    /\ initialized = TRUE
    /\ selector = NoSelector
    /\ lcall = NoLlmCall
    /\ IdleService /\ IdleStore /\ IdleEmbed /\ IdleKeyword /\ IdleFront

HybridSearchCall ==
    /\ ~hcall.called
    /\ \E k \in 1..MaxK, w \in WeightPairs, terms \in TermLists :
        LET out == HybridSearch("q", k, w[1], w[2], terms)
        IN hcall' = [called |-> TRUE, query |-> "q", k |-> k,
                     semantic_weight |-> w[1], keyword_weight |-> w[2],
                     search_terms |-> terms,
                     semantic |-> out.semantic, keyword |-> out.keyword,
                     calls |-> out.calls, results |-> out.results]
    /\ UNCHANGED <<indexVars, analysis, scall, initialized, selector, lcall,
                 serviceVars, storeVars, embedVars, keywordVars, frontVars>>

\* the caller takes the result; the indices are as they were
HybridSearchReturn ==
    /\ hcall.called
    /\ hcall' = NoCall
    /\ UNCHANGED <<indexVars, analysis, scall, initialized, selector, lcall,
                 serviceVars, storeVars, embedVars, keywordVars, frontVars>>

NextFusion == HybridSearchCall \/ HybridSearchReturn

SpecFusion == InitFusion /\ [][NextFusion]_vars

----------------------------------------------------------------------------
(* The strategy specification: an analysis record and calls of             *)
(* determine_search_strategy on it                                         *)

\* confidences in hundredths around the 0.6 threshold, and a missing one
AnalysisConfidences == {None} \cup {Some(c) : c \in {0, 30, 50, 59, 60, 61, 90, 100}}

AnalysisRecords ==
    [search_terms : TermLists,
     content_type : {"table", "figure", "any"},
     intent       : {"", "find the chart"},
     confidence   : AnalysisConfidences]

InitStrategy ==
    /\ analysis \in AnalysisRecords
    /\ scall = NoStrategyCall
    /\ semRanked = <<>>
    /\ lexRanked = [s \in Strings |-> <<>>]
    /\ hcall = NoCall
    /\ initialized = TRUE
    /\ selector = NoSelector
    /\ lcall = NoLlmCall
    /\ IdleService /\ IdleStore /\ IdleEmbed /\ IdleKeyword /\ IdleFront

DetermineStrategyCall ==
    /\ ~scall.called
    /\ scall' = [called |-> TRUE, strategy |-> DetermineSearchStrategy(analysis)]
    /\ UNCHANGED <<indexVars, hcall, analysis, initialized, selector, lcall,
                 serviceVars, storeVars, embedVars, keywordVars, frontVars>>

DetermineStrategyReturn ==
    /\ scall.called
    /\ scall' = NoStrategyCall
    /\ UNCHANGED <<indexVars, hcall, analysis, initialized, selector, lcall,
                 serviceVars, storeVars, embedVars, keywordVars, frontVars>>

NextStrategy == DetermineStrategyCall \/ DetermineStrategyReturn

SpecStrategy == InitStrategy /\ [][NextStrategy]_vars

----------------------------------------------------------------------------
(* The llm_search specification: a service whose vector index ranks some   *)
(* items for the query, an external selector, and calls of llm_search      *)

\* confidences in hundredths around the 0.4 and 0.8 thresholds; the schema
\* of the selection call requires the field
SelectionConfidences == {Some(c) : c \in {0, 39, 40, 50, 79, 80, 100}}

SelectorOutcomes ==
    {[raises |-> TRUE, selected_index |-> None, confidence |-> Some(0)]}
    \cup [raises         : {FALSE},
          selected_index : {None} \cup {Some(i) : i \in 0..MaxSelIdx},
          confidence     : SelectionConfidences]

\* max_results a caller of llm_search passes; LLMSearchQuery takes any
\* integer or None
CallerMaxResults == {None, Some(0), Some(1), Some(3), Some(10), Some(-1)}

InitSelect ==
    /\ semRanked \in {[i \in 1..m |-> i] : m \in 0..MaxMatches}
    /\ lexRanked = [s \in Strings |-> <<>>]
    /\ hcall = NoCall
    /\ analysis = PlainAnalysis
    /\ scall = NoStrategyCall
    /\ initialized \in BOOLEAN
    /\ selector \in SelectorOutcomes
    /\ lcall = NoLlmCall
    /\ IdleService /\ IdleStore /\ IdleEmbed /\ IdleKeyword /\ IdleFront

LlmSearchCall ==
    /\ ~lcall.called
    /\ \E max_results \in CallerMaxResults :
        LET out == LlmSearch("q", max_results)
        IN lcall' = [called |-> TRUE, max_results |-> max_results,
                     search |-> out.search, selected |-> out.selected,
                     llm_result |-> out.llm_result, response |-> out.response,
                     invoked |-> LlmInvoked("q", max_results)]
    /\ UNCHANGED <<indexVars, hcall, analysis, scall, initialized, selector,
                 serviceVars, storeVars, embedVars, keywordVars, frontVars>>

LlmSearchReturn ==
    /\ lcall.called
    /\ lcall' = NoLlmCall
    /\ UNCHANGED <<indexVars, hcall, analysis, scall, initialized, selector,
                 serviceVars, storeVars, embedVars, keywordVars, frontVars>>

NextSelect == LlmSearchCall \/ LlmSearchReturn

SpecSelect == InitSelect /\ [][NextSelect]_vars

----------------------------------------------------------------------------
(* The store specification: the artifacts under INDEX_PATH, processes that *)
(* call initialize once at startup, and saves that are cut short           *)

\* what the parser can find at a startup: no item, or up to MaxContent items
\* in one of two orders
Contents ==
    {[i \in 1..n |-> i] : n \in 0..MaxContent}
    \cup {[i \in 1..n |-> n + 1 - i] : n \in 2..MaxContent}

\* what _parse_content does at a startup: it raises, or it finds these items
ParserOutcomes == {None} \cup {Some(content) : content \in Contents}

ArtifactNames == {"faiss", "metadata", "keyword"}

\* the artifacts a deployment starts with: none, or those of one earlier
\* build of which some have been removed
InitialDisks ==
    {[f \in ArtifactNames |-> IF f \in present THEN Written(build) ELSE None] :
        present \in SUBSET ArtifactNames, build \in Contents \ {<<>>}}

\* the file whose read fails although it is intact
LoadFaults == {"none", "faiss", "metadata", "keyword"}

InitStore ==
    /\ disk \in InitialDisks
    /\ engine = NoEngine
    /\ icall = NoInitialize
    /\ initialized = FALSE
    /\ semRanked = <<>>
    /\ lexRanked = [str \in Strings |-> <<>>]
    /\ hcall = NoCall
    /\ analysis = PlainAnalysis
    /\ scall = NoStrategyCall
    /\ selector = NoSelector
    /\ lcall = NoLlmCall
    /\ IdleService /\ IdleEmbed /\ IdleKeyword /\ IdleFront

\* the startup of a process
InitializeCall ==
    /\ icall.outcome = "none"
    /\ \E parsed \in ParserOutcomes, fault \in LoadFaults, stop \in StopPoints :
        LET out == Initialize(engine, disk, parsed, fault, stop)
        IN /\ engine' = out.engine
           /\ disk' = out.disk
           /\ initialized' = out.initialized
           /\ icall' = [outcome |-> out.outcome,
                        attempted_load |-> out.attempted_load,
                        embedding_loaded |-> out.embedding_loaded,
                        keyword_loaded |-> out.keyword_loaded,
                        parsed |-> parsed # None,
                        content |-> IF parsed = None THEN <<>> ELSE parsed[1],
                        before |-> disk]
    /\ UNCHANGED <<indexVars, hcall, analysis, scall, selector, lcall,
                   serviceVars, embedVars, keywordVars, frontVars>>

\* the process ends and a new one is constructed; the artifacts stay
Restart ==
    /\ icall.outcome # "none"
    /\ engine' = NoEngine
    /\ initialized' = FALSE
    /\ icall' = NoInitialize
    /\ UNCHANGED <<disk, indexVars, hcall, analysis, scall, selector, lcall,
                   serviceVars, embedVars, keywordVars, frontVars>>

NextStore == InitializeCall \/ Restart

SpecStore == InitStore /\ [][NextStore]_vars

----------------------------------------------------------------------------
(* The embedding specification: an embedding engine, the similarity of a   *)
(* query to each of its vectors, and calls of its search                   *)

\* similarities in hundredths around the 0.7 threshold
SimScores == {60, 70, 71, 90}

\* the engine as constructed, or holding n vectors and the first m items of
\* a build (fewer items than vectors after a load of unequal artifacts)
EmbeddingEngines ==
    {NoEngine}
    \cup {[index |-> Some([i \in 1..n |-> i]), content_items |-> [i \in 1..m |-> i],
           bm25 |-> Some([i \in 1..m |-> i]), keyword_items |-> [i \in 1..m |-> i]] :
              n \in 1..NumVectors, m \in 1..NumVectors}

\* the orders in which FAISS can rank the vectors: descending in score
RankOrders(scores) ==
    {o \in [1..Len(scores) -> 1..Len(scores)] :
        /\ \A i, j \in 1..Len(scores) : i # j => o[i] # o[j]
        /\ \A i \in 1..(Len(scores) - 1) : scores[o[i]] >= scores[o[i + 1]]}

\* the texts searched for: empty, white space only, one indexed word, and a
\* capitalised indexed word followed by a word no title holds
EngineQueries == {"", " \n ", "pump", "Pump valve"}

\* what EmbeddingSearchEngine.search can return for a query text: the
\* embedding it asked for and its results, for each order FAISS can rank the
\* vectors in; model_sims are the similarities of the model's vector
EmbeddingSearchQuery(e, query, model_raises, model_sims, k) ==
    IF e.index = None
    THEN {[embedding |-> [zero |-> TRUE, encoded |-> FALSE], results |-> <<>>]}
    ELSE LET embedding == GetEmbedding(query, model_raises)
             scores == QuerySimilarities(embedding, model_sims)
         IN {[embedding |-> embedding,
              results |-> EmbeddingSearchScored(e, scores, order, k)] :
                 order \in RankOrders(scores)}

\* what KeywordSearchEngine.search can return for a query text, for each
\* order argsort can put the scores in
KeywordSearchQuery(e, query, token_scores, k) ==
    IF e.bm25 = None THEN {<<>>}
    ELSE LET scores == Bm25GetScores(token_scores, Tokenize(query), 1)
         IN {KeywordSearchScored(e, scores, argsort, k) : argsort \in ArgSorts(scores)}

InitEmbed ==
    /\ engine \in {e \in EmbeddingEngines :
                      e.index # None => Len(e.content_items) <= Len(e.index[1])}
    /\ sims \in [1..(IF engine.index = None THEN 0 ELSE Len(engine.index[1])) -> SimScores]
    /\ ecall = NoEmbeddingCall
    /\ disk = EmptyDisk
    /\ icall = NoInitialize
    /\ initialized = FALSE
    /\ semRanked = <<>>
    /\ lexRanked = [str \in Strings |-> <<>>]
    /\ hcall = NoCall
    /\ analysis = PlainAnalysis
    /\ scall = NoStrategyCall
    /\ selector = NoSelector
    /\ lcall = NoLlmCall
    /\ IdleService /\ IdleKeyword /\ IdleFront

EmbeddingSearchCall ==
    /\ ~ecall.called /\ ~kcall.called
    /\ \E query \in EngineQueries, model_raises \in BOOLEAN, k \in 1..(NumVectors + 1) :
          \E out \in EmbeddingSearchQuery(engine, query, model_raises, sims, k) :
             ecall' = [called |-> TRUE, query |-> query, k |-> k,
                       embedding |-> out.embedding, results |-> out.results]
    /\ UNCHANGED <<indexVars, hcall, analysis, scall, initialized, selector, lcall,
                   serviceVars, storeVars, sims, keywordVars, frontVars>>

EmbeddingSearchReturn ==
    /\ ecall.called
    /\ ecall' = NoEmbeddingCall
    /\ UNCHANGED <<indexVars, hcall, analysis, scall, initialized, selector, lcall,
                   serviceVars, storeVars, sims, keywordVars, frontVars>>

NextEmbed == EmbeddingSearchCall \/ EmbeddingSearchReturn

SpecEmbed == InitEmbed /\ [][NextEmbed]_vars

----------------------------------------------------------------------------
(* The keyword specification: both engines built over the same items, the  *)
(* BM25 scores of the indexed token, and calls of either engine's search   *)

\* BM25 scores in hundredths: no occurrence, and two positive scores
TokenScores == {0, 10, 20}

\* similarities of the model's query vector: below and above the threshold
KeywordSpecSims == {60, 90}

InitKeyword ==
    /\ engine \in {NoEngine}
                  \cup {BuildIndex(NoEngine, [i \in 1..n |-> i]).engine : n \in 1..NumVectors}
    /\ tokenScores \in [1..Len(engine.keyword_items) -> TokenScores]
    /\ sims \in {[i \in 1..Len(engine.content_items) |-> v] : v \in KeywordSpecSims}
    /\ kcall = NoKeywordCall
    /\ ecall = NoEmbeddingCall
    /\ disk = EmptyDisk
    /\ icall = NoInitialize
    /\ initialized = FALSE
    /\ semRanked = <<>>
    /\ lexRanked = [str \in Strings |-> <<>>]
    /\ hcall = NoCall
    /\ analysis = PlainAnalysis
    /\ scall = NoStrategyCall
    /\ selector = NoSelector
    /\ lcall = NoLlmCall
    /\ IdleService /\ IdleFront

KeywordEngineSearchCall ==
    /\ ~kcall.called /\ ~ecall.called
    /\ \E query \in EngineQueries, k \in 1..(NumVectors + 1) :
          \E results \in KeywordSearchQuery(engine, query, tokenScores, k) :
             kcall' = [called |-> TRUE, query |-> query, k |-> k, results |-> results]
    /\ UNCHANGED <<indexVars, hcall, analysis, scall, initialized, selector, lcall,
                   serviceVars, storeVars, embedVars, tokenScores, frontVars>>

KeywordEngineSearchReturn ==
    /\ kcall.called
    /\ kcall' = NoKeywordCall
    /\ UNCHANGED <<indexVars, hcall, analysis, scall, initialized, selector, lcall,
                   serviceVars, storeVars, embedVars, tokenScores, frontVars>>

NextKeyword ==
    \/ KeywordEngineSearchCall \/ KeywordEngineSearchReturn
    \/ EmbeddingSearchCall \/ EmbeddingSearchReturn

SpecKeyword == InitKeyword /\ [][NextKeyword]_vars

----------------------------------------------------------------------------
(* The service specification: a service over built indices, the two        *)
(* external calls, and calls of search and llm_search                      *)

\* the query texts of the service specification
QueryTexts ==
    {"q",
     "Show the Pump table",
     "image of it",
     "pump pump pump pump pump pump pump pump pump pump pump valve"}

\* every string the lexical index is asked about
ServiceStrings == QueryTexts \cup {"t", "pump", "table", "image", "valve"}

\* the rankings the lexical index holds for a string in this specification
ServiceRankings == {<<>>, <<3, 2>>}

\* the rankings it holds for a search term: those, and one that begins with
\* the item the vector index ranks first
ServiceTermRankings == ServiceRankings \cup {<<1, 3>>}

\* what the external analysis call answers when it does not raise
ServiceAnalyses ==
    [search_terms : {<<>>, <<"t">>},
     content_type : {"table", "figure", "any"},
     intent       : {""},
     confidence   : {Some(90)}]

\* what the external selection call does: it raises, it picks the first
\* result, or it answers an index beyond every candidate list
ServiceSelectors ==
    {[raises |-> TRUE, selected_index |-> None, confidence |-> Some(0)],
     [raises |-> FALSE, selected_index |-> Some(0), confidence |-> Some(80)],
     [raises |-> FALSE, selected_index |-> Some(MaxMatches), confidence |-> Some(80)]}

\* max_results a caller of search passes; SearchQuery takes any integer or None
SearchMaxResults == {None, Some(0), Some(1), Some(3), Some(7), Some(-1)}

InitService ==
    /\ semRanked \in {[i \in 1..m |-> i] : m \in {0, 2, MaxMatches}}
    /\ \E raw \in ServiceRankings, term \in ServiceTermRankings :
          lexRanked = [s \in ServiceStrings |->
                          IF s \in QueryTexts THEN raw
                          ELSE IF s \in {"t", "pump"} THEN term ELSE <<>>]
    /\ hcall = NoCall
    /\ analysis \in ServiceAnalyses
    /\ scall = NoStrategyCall
    /\ initialized \in BOOLEAN
    /\ selector \in ServiceSelectors
    /\ lcall = NoLlmCall
    /\ analyzerRaises \in BOOLEAN
    /\ svc = NoSearchCall
    /\ IdleStore /\ IdleEmbed /\ IdleKeyword /\ IdleFront

SearchCall ==
    /\ ~svc.called /\ ~lcall.called
    /\ \E query \in QueryTexts, max_results \in SearchMaxResults :
        LET out == SearchStages(query, max_results)
        IN svc' = [called |-> TRUE, query |-> query, max_results |-> max_results,
                   invoked |-> out.invoked, analysis |-> out.analysis,
                   strategy |-> out.strategy, k |-> out.k,
                   raised |-> out.raised, found |-> out.found,
                   response |-> out.response]
    /\ UNCHANGED <<indexVars, hcall, analysis, scall, initialized, selector, lcall,
                   analyzerRaises, storeVars, embedVars, keywordVars, frontVars>>

SearchReturn ==
    /\ svc.called
    /\ svc' = NoSearchCall
    /\ UNCHANGED <<indexVars, hcall, analysis, scall, initialized, selector, lcall,
                   analyzerRaises, storeVars, embedVars, keywordVars, frontVars>>

\* llm_search of the service specification
ServiceLlmSearchCall == ~svc.called /\ LlmSearchCall

NextService == SearchCall \/ SearchReturn \/ ServiceLlmSearchCall \/ LlmSearchReturn

SpecService == InitService /\ [][NextService]_vars

----------------------------------------------------------------------------
(* The concurrent specification: callers whose search and llm_search calls *)
(* on one service interleave stage by stage                                *)

Callers == 1..NumCallers

\* the queries the callers send
ConcurrentQueries == {"q", "Show the Pump table"}

\* the max_results the callers pass
ConcurrentMaxResults == {None}

\* the max_results the search stage of a call works with: llm_search passes
\* max_results or 10 on to search
SearchMaxResultsOf(call) ==
    IF call.kind = "llm"
    THEN Some(OrDefault(call.max_results, LLM_DEFAULT_MAX_RESULTS))
    ELSE call.max_results

InitConcurrent ==
    /\ semRanked = <<1, 2, 3>>
    /\ lexRanked = [s \in ServiceStrings |->
                       IF s = "q" THEN <<3, 2>>
                       ELSE IF s = "pump" THEN <<2>> ELSE <<>>]
    /\ hcall = NoCall
    /\ analysis \in {a \in ServiceAnalyses : a.content_type # "table"}
    /\ scall = NoStrategyCall
    /\ initialized \in BOOLEAN
    /\ selector \in {sel \in ServiceSelectors : ~sel.raises}
    /\ lcall = NoLlmCall
    /\ analyzerRaises \in BOOLEAN
    /\ svc = NoSearchCall
    /\ callers = [c \in Callers |-> NoQuery]
    /\ request = NoRequest
    /\ IdleStore /\ IdleEmbed /\ IdleKeyword

\* a caller enters search or llm_search, which answer at once when the
\* service is not initialized
Enter(c) ==
    /\ callers[c].pc = "idle"
    /\ \E kind \in {"search", "llm"}, query \in ConcurrentQueries,
          max_results \in ConcurrentMaxResults :
          callers' = [callers EXCEPT ![c] =
              [NoQuery EXCEPT !.kind = kind, !.query = query,
                              !.max_results = max_results,
                              !.pc = IF initialized THEN "analyze" ELSE "done",
                              !.response = IF kind = "llm" THEN ErrorLlmResponse
                                           ELSE ErrorSearchResponse]]
    /\ UNCHANGED <<indexVars, hcall, analysis, scall, initialized, selector, lcall,
                   serviceVars, storeVars, embedVars, keywordVars, request>>

\* analyze_query and determine_search_strategy
Analyze(c) ==
    /\ callers[c].pc = "analyze"
    /\ LET a == AnalyzeQuery(callers[c].query)
       IN callers' = [callers EXCEPT ![c].analysis = a,
                                     ![c].strategy = DetermineSearchStrategy(a),
                                     ![c].pc = "hybrid"]
    /\ UNCHANGED <<indexVars, hcall, analysis, scall, initialized, selector, lcall,
                   serviceVars, storeVars, embedVars, keywordVars, request>>

\* the hybrid search of a caller whose results are kept in a field of the
\* service object, which every call past its own hybrid search then reads
SearchHybridShared(c) ==
    /\ callers[c].pc = "hybrid"
    /\ LET call == callers[c]
           out == SearchWithStrategy(call.query, SearchMaxResultsOf(call),
                                     call.analysis, call.strategy)
       IN callers' = [d \in Callers |->
              IF d = c
              THEN [call EXCEPT !.raised = out.raised, !.found = out.found,
                                !.pc = "respond"]
              ELSE IF callers[d].pc = "respond"
                   THEN [callers[d] EXCEPT !.raised = out.raised, !.found = out.found]
                   ELSE callers[d]]
    /\ UNCHANGED <<indexVars, hcall, analysis, scall, initialized, selector, lcall,
                   serviceVars, storeVars, embedVars, keywordVars, request>>

\* self.search_engine.search(...) with the k of the call; its results are a
\* local of the call
SearchHybrid(c) ==
    /\ callers[c].pc = "hybrid"
    /\ LET call == callers[c]
           out == SearchWithStrategy(call.query, SearchMaxResultsOf(call),
                                     call.analysis, call.strategy)
       IN callers' = [callers EXCEPT ![c].raised = out.raised, ![c].found = out.found,
                                     ![c].pc = "respond"]
    /\ UNCHANGED <<indexVars, hcall, analysis, scall, initialized, selector, lcall,
                   serviceVars, storeVars, embedVars, keywordVars, request>>

\* the content-type filter and the SearchResponse, or the response of the
\* except branch; search returns it, llm_search goes on with it
Respond(c) ==
    /\ callers[c].pc = "respond"
    /\ LET call == callers[c]
           search == IF call.raised THEN ErrorSearchResponse
                     ELSE SearchRespond(call.found.results, call.strategy)
       IN callers' = [callers EXCEPT
              ![c].search = search,
              ![c].response = IF call.kind = "llm" THEN call.response ELSE search,
              ![c].pc = IF call.kind = "llm" THEN "select" ELSE "done"]
    /\ UNCHANGED <<indexVars, hcall, analysis, scall, initialized, selector, lcall,
                   serviceVars, storeVars, embedVars, keywordVars, request>>

\* llm_search from the search response on
Select(c) ==
    /\ callers[c].pc = "select"
    /\ callers' = [callers EXCEPT
           ![c].response = LlmAfterSearch(callers[c].search).response,
           ![c].pc = "done"]
    /\ UNCHANGED <<indexVars, hcall, analysis, scall, initialized, selector, lcall,
                   serviceVars, storeVars, embedVars, keywordVars, request>>

\* the caller has its response
Leave(c) ==
    /\ callers[c].pc = "done"
    /\ callers' = [callers EXCEPT ![c] = NoQuery]
    /\ UNCHANGED <<indexVars, hcall, analysis, scall, initialized, selector, lcall,
                   serviceVars, storeVars, embedVars, keywordVars, request>>

NextConcurrent ==
    \E c \in Callers :
        \/ Enter(c) \/ Analyze(c) \/ SearchHybrid(c)
        \/ Respond(c) \/ Select(c) \/ Leave(c)

SpecConcurrent == InitConcurrent /\ [][NextConcurrent]_vars

----------------------------------------------------------------------------
(* The endpoint specification: requests to /search and /llm-search of the  *)
(* application and the HTTP responses they get                             *)

Endpoints == {"/search", "/llm-search"}

\* the query texts of the requests: empty, blanks, a blank and a newline,
\* and two texts with words
HttpQueries == {"", "  ", " \n", "q", "Show the Pump table"}

\* the max_results of the requests
HttpMaxResults == {None, Some(1)}

\* str(e) of the HTTPException the handler raises
HttpExceptionText(status_code_text, detail) == status_code_text \o ": " \o detail

\* the try block of both handlers: the check of the stripped query, which
\* raises HTTPException(400), and the call of the service, whose methods
\* catch their own exceptions
EndpointTry(endpoint, query, max_results) ==
    IF Strip(query) = ""
    THEN [raised |-> TRUE, service_called |-> FALSE, body |-> None,
          exception |-> HttpExceptionText("400", "Query cannot be empty")]
    ELSE [raised |-> FALSE, service_called |-> TRUE,
          body |-> Some(IF endpoint = "/llm-search"
                        THEN LlmSearch(query, max_results).response
                        ELSE ServiceSearch(query, max_results)),
          exception |-> ""]

\* a handler: its try block, and the except Exception that answers every
\* exception raised in it, HTTPException included, with HTTPException(500)
Endpoint(endpoint, query, max_results) ==
    LET try == EndpointTry(endpoint, query, max_results)
    IN IF try.raised
       THEN [status_code |-> 500,
             detail |-> "Internal server error: " \o try.exception,
             service_called |-> try.service_called, body |-> None]
       ELSE [status_code |-> 200, detail |-> "",
             service_called |-> try.service_called, body |-> try.body]

InitHttp ==
    /\ semRanked \in {<<>>, <<1, 2, 3>>}
    /\ lexRanked = [s \in ServiceStrings |->
                       IF s = "q" THEN <<3, 2>>
                       ELSE IF s = "pump" THEN <<2>> ELSE <<>>]
    /\ hcall = NoCall
    /\ analysis = PlainAnalysis
    /\ scall = NoStrategyCall
    /\ initialized \in BOOLEAN
    /\ selector \in ServiceSelectors
    /\ lcall = NoLlmCall
    /\ analyzerRaises \in BOOLEAN
    /\ svc = NoSearchCall
    /\ callers = <<>>
    /\ request = NoRequest
    /\ IdleStore /\ IdleEmbed /\ IdleKeyword

HttpRequest ==
    /\ ~request.called
    /\ \E endpoint \in Endpoints, query \in HttpQueries, max_results \in HttpMaxResults :
          LET out == Endpoint(endpoint, query, max_results)
          IN request' = [called |-> TRUE, endpoint |-> endpoint, query |-> query,
                         max_results |-> max_results,
                         status_code |-> out.status_code, detail |-> out.detail,
                         service_called |-> out.service_called, body |-> out.body]
    /\ UNCHANGED <<indexVars, hcall, analysis, scall, initialized, selector, lcall,
                   serviceVars, storeVars, embedVars, keywordVars, callers>>

HttpResponse ==
    /\ request.called
    /\ request' = NoRequest
    /\ UNCHANGED <<indexVars, hcall, analysis, scall, initialized, selector, lcall,
                   serviceVars, storeVars, embedVars, keywordVars, callers>>

NextHttp == HttpRequest \/ HttpResponse

SpecHttp == InitHttp /\ [][NextHttp]_vars

----------------------------------------------------------------------------
(* Claims about HybridSearchEngine.search, stated on the lists one call used *)

\* the ids of the keyword list the call fused
KeywordIds == [i \in 1..Len(hcall.keyword) |-> hcall.keyword[i].id]

InSemantic(id) == id \in Range(hcall.semantic)

InKeyword(id) == id \in Range(KeywordIds)

\* weight/(rank+1) of an id in a list of ids, 0 when the list does not hold it
Contribution(ids, id, weight) ==
    IF id \in Range(ids) THEN weight * Recip(IndexOf(ids, id) - 1) ELSE 0

\* C1: every returned item's relevance_score is semantic_weight/(r_s+1) if it
\* is only in the semantic list, keyword_weight/(r_k+1) if it is only in the
\* keyword list and the sum of the two if it is in both; rank 0 in both lists
\* under weights 0.7/0.3 is returned first with score exactly 1.0.
C1_RelevanceScore ==
    hcall.called =>
        /\ \A i \in 1..Len(hcall.results) :
              LET r == hcall.results[i]
              IN /\ InSemantic(r.id) \/ InKeyword(r.id)
                 /\ r.rrf_score =
                        Contribution(hcall.semantic, r.id, hcall.semantic_weight)
                        + Contribution(KeywordIds, r.id, hcall.keyword_weight)
        /\ ( /\ hcall.semantic_weight = 7 /\ hcall.keyword_weight = 3
             /\ hcall.semantic # <<>> /\ hcall.keyword # <<>>
             /\ hcall.semantic[1] = KeywordIds[1] )
           => /\ hcall.results[1].id = hcall.semantic[1]
              /\ hcall.results[1].rrf_score = One

\* a call under weights 0.7/0.3 returned an item at rank 0 of both lists, an
\* item of the semantic list alone and nothing else
C1_Witness ==
    /\ hcall.called
    /\ hcall.semantic_weight = 7 /\ hcall.keyword_weight = 3
    /\ Len(hcall.results) = 2
    /\ InSemantic(hcall.results[1].id) /\ InKeyword(hcall.results[1].id)
    /\ hcall.results[1].rrf_score = One
    /\ InSemantic(hcall.results[2].id) /\ ~InKeyword(hcall.results[2].id)

\* C2: a result's match_type is 'hybrid' iff its item is in both the semantic
\* and the keyword list, 'semantic' iff only in the semantic list, 'keyword'
\* iff only in the keyword list.
C2_MatchType ==
    hcall.called =>
        \A i \in 1..Len(hcall.results) :
            LET r == hcall.results[i]
            IN /\ r.match_type = "hybrid" <=> (InSemantic(r.id) /\ InKeyword(r.id))
               /\ r.match_type = "semantic" <=> (InSemantic(r.id) /\ ~InKeyword(r.id))
               /\ r.match_type = "keyword" <=> (~InSemantic(r.id) /\ InKeyword(r.id))

\* a call returned a hybrid and a keyword-only result
C2_Witness ==
    /\ hcall.called
    /\ \E i, j \in 1..Len(hcall.results) :
          /\ hcall.results[i].match_type = "hybrid"
          /\ hcall.results[j].match_type = "keyword"

\* position at which an id entered the combined map: semantic items in
\* semantic rank order, then keyword-only items in keyword rank order
FirstSeen(id) ==
    IF InSemantic(id) THEN IndexOf(hcall.semantic, id)
    ELSE Len(hcall.semantic) + IndexOf(KeywordIds, id)

\* C3: at most k results, in non-increasing relevance_score order, results of
\* equal score in the order their ids entered the combined map.
C3_OrderAndTruncation ==
    hcall.called =>
        /\ Len(hcall.results) <= hcall.k
        /\ \A i, j \in 1..Len(hcall.results) :
              i < j =>
                 /\ hcall.results[i].rrf_score >= hcall.results[j].rrf_score
                 /\ hcall.results[i].rrf_score = hcall.results[j].rrf_score
                       => FirstSeen(hcall.results[i].id) < FirstSeen(hcall.results[j].id)

\* a call whose combined map held more than k ids returned k results, two of
\* them of equal score
C3_Witness ==
    /\ hcall.called
    /\ Len(hcall.results) = hcall.k
    /\ Cardinality(Range(hcall.semantic) \cup Range(KeywordIds)) > hcall.k
    /\ \E i, j \in 1..Len(hcall.results) :
          /\ i < j
          /\ hcall.results[i].rrf_score = hcall.results[j].rrf_score

\* sum over the terms from the t-th on of 1/(rank+1) of id in that term's
\* lexical search, weight 1.0 each
RECURSIVE TermSum(_, _, _, _)
TermSum(id, terms, k, t) ==
    IF t > Len(terms) THEN 0
    ELSE Contribution(KeywordSearch(terms[t], k), id, 10) + TermSum(id, terms, k, t + 1)

\* the ids some term's lexical search returns
TermHits(terms, k) == UNION {Range(KeywordSearch(terms[t], k)) : t \in 1..Len(terms)}

\* C4: with search_terms, the lexical search runs once per term and not on
\* the raw query, and the keyword list holds the items of those searches with
\* the sum over terms of 1/(rank+1), in descending order of the sum, cut to
\* k; without search_terms it is the lexical search of the raw query.
C4_KeywordList ==
    hcall.called =>
        IF hcall.search_terms # <<>>
        THEN LET hits == TermHits(hcall.search_terms, hcall.k)
             IN /\ hcall.calls = hcall.search_terms
                /\ Len(hcall.keyword) = Min(hcall.k, Cardinality(hits))
                /\ Range(KeywordIds) \subseteq hits
                /\ \A i, j \in 1..Len(KeywordIds) : i # j => KeywordIds[i] # KeywordIds[j]
                /\ \A i \in 1..Len(hcall.keyword) :
                      /\ hcall.keyword[i].rrf_score =
                            TermSum(hcall.keyword[i].id, hcall.search_terms, hcall.k, 1)
                      /\ i > 1 => hcall.keyword[i - 1].rrf_score >= hcall.keyword[i].rrf_score
                      /\ \A id \in hits \ Range(KeywordIds) :
                            TermSum(id, hcall.search_terms, hcall.k, 1)
                                <= hcall.keyword[i].rrf_score
        ELSE /\ hcall.calls = <<hcall.query>>
             /\ KeywordIds = KeywordSearch(hcall.query, hcall.k)

\* a call with two terms whose searches share an item, summed to more than
\* 1.0, while the raw query alone would have ranked another item first
C4_Witness ==
    /\ hcall.called
    /\ Len(hcall.search_terms) = 2
    /\ \E i \in 1..Len(hcall.keyword) : hcall.keyword[i].rrf_score > One
    /\ lexRanked["q"] # <<>>
    /\ lexRanked["q"][1] # KeywordIds[1]

----------------------------------------------------------------------------
(* Claims about determine_search_strategy *)

\* C5: for an analysis with a confidence below 0.6 the strategy is semantic
\* 0.8 / keyword 0.2 whatever the search terms; otherwise it is semantic 0.4 /
\* keyword 0.6 with search terms and semantic 0.3 / keyword 0.7 without; the
\* search terms are passed through unchanged.
C5_StrategyWeights ==
    scall.called =>
        /\ scall.strategy.search_terms = analysis.search_terms
        /\ analysis.confidence # None =>
              LET confidence == analysis.confidence[1]
                  sw == scall.strategy.semantic_weight
                  kw == scall.strategy.keyword_weight
              IN /\ confidence < 60 => (sw = 8 /\ kw = 2)
                 /\ (confidence >= 60 /\ analysis.search_terms # <<>>)
                       => (sw = 4 /\ kw = 6)
                 /\ (confidence >= 60 /\ analysis.search_terms = <<>>)
                       => (sw = 3 /\ kw = 7)

\* a strategy was determined for an analysis with search terms and a
\* confidence just below 0.6, and it leans semantic
C5_Witness ==
    /\ scall.called
    /\ analysis.confidence = Some(59)
    /\ analysis.search_terms # <<>>
    /\ scall.strategy.semantic_weight = 8
    /\ scall.strategy.search_terms = analysis.search_terms

----------------------------------------------------------------------------
(* Claims about the result classifier and llm_search *)

\* the selection call was made in the last llm_search and answered
SelectorAnswered == lcall.called /\ lcall.selected /\ ~selector.raises

\* the number of candidates handed to the selector
NumCandidates == Len(lcall.search.results)

\* the selector's index is one of the candidates
IndexInRange ==
    /\ selector.selected_index # None
    /\ selector.selected_index[1] < NumCandidates

\* the candidate at the selector's index
CandidateAtIndex == lcall.search.results[selector.selected_index[1] + 1].id

\* C6: when the selection call succeeds on a non-empty result list and
\* selected_index is null or confidence is below 0.4, the classifier returns
\* insufficient_info with no selected index, and llm_search returns
\* insufficient_info with no selected_result and no alternative_candidates.
C6_InsufficientInfo ==
    ( /\ SelectorAnswered
      /\ \/ selector.selected_index = None
         \/ selector.confidence # None /\ selector.confidence[1] < 40 )
    => /\ lcall.llm_result.status = "insufficient_info"
       /\ lcall.llm_result.selected_index = None
       /\ lcall.response.status = "insufficient_info"
       /\ lcall.response.selected_result = None
       /\ lcall.response.alternative_candidates = <<>>

\* the selector answered a valid index with confidence 0.39 and llm_search
\* said insufficient_info
C6_Witness ==
    /\ SelectorAnswered
    /\ IndexInRange
    /\ selector.confidence = Some(39)
    /\ NumCandidates >= 2
    /\ lcall.response.status = "insufficient_info"

\* C7: when the selection call succeeds with a selected_index and confidence
\* of at least 0.8, the classifier's status is success and llm_search never
\* answers multiple_candidates, however many candidates there are; for an
\* index within the candidate list llm_search answers success, the selected
\* result is the candidate at that index and there are no alternatives.
C7_HighConfidence ==
    ( /\ SelectorAnswered
      /\ selector.selected_index # None
      /\ selector.confidence # None /\ selector.confidence[1] >= 80 )
    => /\ lcall.llm_result.status = "success"
       /\ lcall.llm_result.selected_index = selector.selected_index
       /\ lcall.response.status # "multiple_candidates"
       /\ IndexInRange =>
             /\ lcall.response.status = "success"
             /\ lcall.response.selected_result = Some(CandidateAtIndex)
             /\ lcall.response.alternative_candidates = <<>>

\* confidence exactly 0.8 on five candidates, the second selected
C7_Witness ==
    /\ SelectorAnswered
    /\ selector.confidence = Some(80)
    /\ selector.selected_index = Some(1)
    /\ NumCandidates = 5
    /\ lcall.response.status = "success"
    /\ lcall.response.selected_result = Some(CandidateAtIndex)

\* a result other than the selected one exists among the first 3 results
OtherAmongFirstThree ==
    \E i \in 0..(Min(3, NumCandidates) - 1) : i # selector.selected_index[1]

\* C8: when the selection call succeeds with a selected_index within the
\* candidate list and 0.4 <= confidence < 0.8, the status is
\* multiple_candidates iff a result other than the selected one exists among
\* the first 3 results, and success otherwise; either way the selected result
\* is the candidate at selected_index.
C8_MediumConfidence ==
    ( /\ SelectorAnswered
      /\ IndexInRange
      /\ selector.confidence # None
      /\ selector.confidence[1] >= 40 /\ selector.confidence[1] < 80 )
    => /\ lcall.response.status = "multiple_candidates" <=> OtherAmongFirstThree
       /\ ~OtherAmongFirstThree => lcall.response.status = "success"
       /\ lcall.llm_result.status = lcall.response.status
       /\ lcall.response.selected_result = Some(CandidateAtIndex)

\* confidence exactly 0.4 with several candidates: multiple_candidates
C8_Witness ==
    /\ SelectorAnswered
    /\ IndexInRange
    /\ selector.confidence = Some(40)
    /\ NumCandidates >= 2
    /\ lcall.response.status = "multiple_candidates"
    /\ lcall.response.selected_result = Some(CandidateAtIndex)

\* the ids of the first 3 search results
FirstThreeIds == {lcall.search.results[i].id : i \in 1..Min(3, NumCandidates)}

\* C9: in every multiple_candidates response, alternative_candidates holds at
\* most 2 results, each from the first 3 search results, and never the
\* selected result, for every selected_index within the candidate list.
C9_AlternativesAtMostTwo ==
    (lcall.called /\ lcall.response.status = "multiple_candidates")
    => /\ Len(lcall.response.alternative_candidates) <= 2
       /\ Range(lcall.response.alternative_candidates) \subseteq FirstThreeIds
       /\ lcall.response.selected_result # None
       /\ lcall.response.selected_result[1]
              \notin Range(lcall.response.alternative_candidates)

\* C10: when the selection call raises, the classifier returns index 0,
\* confidence 0.3, status success and the fallback reasoning, and llm_search
\* returns the first search result; a selection call that succeeds never
\* yields status success with a confidence below 0.4 (nor that reasoning).
C10_FallbackSelection ==
    /\ (lcall.called /\ lcall.selected /\ selector.raises)
       => /\ lcall.llm_result.status = "success"
          /\ lcall.llm_result.selected_index = Some(0)
          /\ lcall.llm_result.confidence = 30
          /\ lcall.llm_result.reasoning = "LLM failed, using top result"
          /\ lcall.response.status = "success"
          /\ lcall.response.selected_result = Some(lcall.search.results[1].id)
          /\ lcall.response.alternative_candidates = <<>>
          /\ lcall.response.confidence_score = Some(30)
          /\ lcall.response.llm_reasoning = Some("LLM failed, using top result")
    /\ (SelectorAnswered /\ lcall.response.status = "success")
       => /\ lcall.response.confidence_score # None
          /\ lcall.response.confidence_score[1] >= 40
          /\ lcall.response.llm_reasoning # Some("LLM failed, using top result")

\* the selection call raised on several candidates and llm_search answered
\* success with the first of them
C10_Witness ==
    /\ lcall.called /\ lcall.selected /\ selector.raises
    /\ NumCandidates >= 2
    /\ lcall.response.status = "success"
    /\ lcall.response.selected_result = Some(lcall.search.results[1].id)

----------------------------------------------------------------------------
(* Claims about service.search and llm_search on built indices *)

\* the strings whose lexical search the hybrid search of a query runs
SearchedStrings(query) ==
    LET terms == AnalyzeQuery(query).search_terms
    IN IF terms # <<>> THEN Range(terms) ELSE {query}

\* neither index holds a match for the query
NoMatchFor(query) ==
    /\ semRanked = <<>>
    /\ \A str \in SearchedStrings(query) : lexRanked[str] = <<>>

\* C11: when neither the semantic nor the keyword list of a hybrid search has
\* a match, the hybrid search returns the empty sequence without raising and
\* service.search answers insufficient_info with zero results; llm_search
\* answers insufficient_info with no selected_result and confidence 0.0 and
\* does not invoke the selector.
C11_NoMatches ==
    /\ ( /\ svc.called /\ initialized /\ svc.k >= 1
          /\ NoMatchFor(svc.query) )
       => /\ ~svc.raised
          /\ svc.found.semantic = <<>> /\ svc.found.keyword = <<>>
          /\ svc.found.results = <<>>
          /\ svc.response.status = "insufficient_info"
          /\ svc.response.results = <<>>
          /\ svc.response.total_found = 0
    /\ (lcall.called /\ initialized /\ NoMatchFor("q"))
       => /\ OrDefault(lcall.max_results, LLM_DEFAULT_MAX_RESULTS) >= 1
                 => lcall.search.status = "insufficient_info"
          /\ lcall.response.status = "insufficient_info"
          /\ lcall.response.selected_result = None
          /\ lcall.response.alternative_candidates = <<>>
          /\ lcall.response.confidence_score = Some(0)
          /\ "selector" \notin lcall.invoked
          /\ ~lcall.selected

\* a search with extracted terms found nothing in either index while the
\* lexical index does hold matches for other strings
C11_Witness ==
    /\ svc.called /\ initialized /\ svc.k >= 1
    /\ NoMatchFor(svc.query)
    /\ svc.analysis.search_terms # <<>>
    /\ \E str \in ServiceStrings : lexRanked[str] # <<>>
    /\ svc.response.status = "insufficient_info"

\* the count a caller asks for: the default of 10 for None
RequestedCount(max_results) ==
    IF max_results = None THEN CONFIG_MAX_RESULTS ELSE Max(0, max_results[1])

\* C12: for every max_results a caller passes (0, None and values above 5
\* included) service.search returns at most min(requested count, 5) results.
C12_AtMostRequested ==
    svc.called =>
        Len(svc.response.results) <= Min(RequestedCount(svc.max_results),
                                         STRATEGY_MAX_RESULTS)

\* the results of the hybrid search that have the content type, in order
RECURSIVE ResultsOfType(_, _)
ResultsOfType(results, ct) ==
    IF results = <<>> THEN <<>>
    ELSE (IF (Head(results).id % 2 = 1) = (ct = "figure") THEN <<Head(results)>> ELSE <<>>)
         \o ResultsOfType(Tail(results), ct)

\* C13: the strategy's content_type_filter is the analysis content_type, or
\* None when that is 'any'; with a filter every result of service.search has
\* that content type, no result of that type is dropped and total_found is
\* the number of results; without a filter the results are those of the
\* hybrid search.
C13_ContentTypeFilter ==
    (svc.called /\ initialized /\ ~svc.raised) =>
        /\ svc.strategy.content_type_filter =
               (IF svc.analysis.content_type = "any" THEN None
                ELSE Some(svc.analysis.content_type))
        /\ svc.response.total_found = Len(svc.response.results)
        /\ IF svc.analysis.content_type = "any"
           THEN svc.response.results = svc.found.results
           ELSE /\ \A i \in 1..Len(svc.response.results) :
                      ContentTypeOf(svc.response.results[i].id) = svc.analysis.content_type
                /\ svc.response.results =
                       ResultsOfType(svc.found.results, svc.analysis.content_type)

\* a search filtered to tables dropped some of the hybrid search's results
\* and kept others
C13_Witness ==
    /\ svc.called /\ initialized /\ ~svc.raised
    /\ svc.analysis.content_type = "table"
    /\ svc.response.results # <<>>
    /\ Len(svc.response.results) < Len(svc.found.results)
    /\ svc.response.total_found = Len(svc.response.results)

Statuses == {"success", "insufficient_info", "multiple_candidates", "error"}

\* C18: every search and llm_search call answers with one of the four
\* statuses, a call whose try block raises answers error, and a call before
\* initialization answers error without invoking the analyzer, the engines
\* or the selector.
C18_AlwaysAStatus ==
    /\ svc.called =>
          /\ svc.response.status \in Statuses
          /\ svc.raised => svc.response.status = "error"
          /\ ~initialized => (svc.response.status = "error" /\ svc.invoked = {})
    /\ lcall.called =>
          /\ lcall.response.status \in Statuses
          /\ lcall.search.status = "error" => lcall.response.status \in {"error", "insufficient_info"}
          /\ ~initialized => (lcall.response.status = "error" /\ lcall.invoked = {}
                               /\ ~lcall.selected)

\* a search called before initialization, while the analyzer is failing,
\* answered error
C18_Witness ==
    /\ svc.called /\ ~initialized /\ analyzerRaises
    /\ semRanked # <<>>
    /\ svc.response.status = "error"
    /\ svc.invoked = {}

\* C19: when the external analysis call raises, the analysis used is the
\* fallback: confidence exactly 0.5 and at most 10 search terms, each a word
\* of at least 3 characters of the lower-cased query; the strategy and the
\* hybrid search run on it, and the response is not an error unless the
\* hybrid search itself raised.
C19_AnalyzerFallback ==
    (svc.called /\ initialized /\ analyzerRaises) =>
        /\ svc.analysis.confidence = Some(50)
        /\ Len(svc.analysis.search_terms) <= 10
        /\ \A i \in 1..Len(svc.analysis.search_terms) :
              /\ Len(svc.analysis.search_terms[i]) >= 3
              /\ Contains(Lower(svc.query, 1), svc.analysis.search_terms[i])
        /\ svc.invoked = {"analyzer", "engines"}
        /\ svc.strategy.search_terms = svc.analysis.search_terms
        /\ svc.strategy.semantic_weight = 8 /\ svc.strategy.keyword_weight = 2
        /\ svc.found.calls = (IF svc.raised THEN <<>>
                              ELSE IF svc.analysis.search_terms # <<>>
                                   THEN svc.analysis.search_terms ELSE <<svc.query>>)
        /\ svc.response.status = "error" <=> svc.raised
        /\ svc.raised => svc.k < 1

\* the analysis call raised on a query of twelve keywords; ten terms were
\* searched and the search succeeded
C19_Witness ==
    /\ svc.called /\ initialized /\ analyzerRaises
    /\ Len(svc.analysis.search_terms) = 10
    /\ Len(svc.found.calls) = 10
    /\ svc.response.status = "success"

----------------------------------------------------------------------------
(* Claims about initialize and the persisted artifacts *)

\* both artifacts initialize looks for existed when it was called
BothExisted == icall.before.faiss # None /\ icall.before.keyword # None

\* the engines hold exactly what the artifacts held before the call
EngineAsLoaded ==
    /\ engine.index = Some(icall.before.faiss[1].build)
    /\ icall.before.metadata # None
    /\ engine.content_items = icall.before.metadata[1].build
    /\ engine.bm25 = Some(icall.before.keyword[1].build)
    /\ engine.keyword_items = icall.before.keyword[1].build

\* the engines hold exactly the build of the items parsed in this call
EngineAsBuilt ==
    /\ engine.index = Some(icall.content)
    /\ engine.content_items = icall.content
    /\ engine.bm25 = Some(icall.content)
    /\ engine.keyword_items = icall.content

\* all three artifacts are complete files of the build of these items
DiskHoldsBuild(content) ==
    /\ disk.faiss = Written(content)
    /\ disk.metadata = Written(content)
    /\ disk.keyword = Written(content)

\* C14: initialize attempts a load exactly when both artifacts exist; it
\* is READY after a load only if both loads succeeded, and then holds what
\* the artifacts held; in every other completed case with items it rebuilt
\* both indices from the parsed items and persisted both, so a READY service
\* holds either the loaded pair or the rebuilt pair, never one of each.
C14_LoadOrRebuildBoth ==
    icall.outcome # "none" =>
        /\ icall.attempted_load <=> BothExisted
        /\ icall.outcome = "loaded" <=>
               (BothExisted /\ icall.embedding_loaded /\ icall.keyword_loaded
                /\ icall.parsed)
        /\ icall.outcome = "loaded" => (disk = icall.before /\ EngineAsLoaded)
        /\ icall.outcome = "built" => (EngineAsBuilt /\ DiskHoldsBuild(icall.content))
        /\ ( /\ ~(BothExisted /\ icall.embedding_loaded /\ icall.keyword_loaded)
             /\ icall.parsed /\ icall.content # <<>>
             /\ icall.outcome # "interrupted" ) => icall.outcome = "built"
        /\ initialized <=> icall.outcome \in {"loaded", "built"}

\* the vector artifact loaded, the load of the lexical artifact failed, and
\* the service is READY on indices both rebuilt from the parsed items, which
\* differ from those the vector artifact was built from
C14_Witness ==
    /\ icall.outcome = "built" /\ initialized
    /\ icall.attempted_load
    /\ icall.embedding_loaded /\ ~icall.keyword_loaded
    /\ icall.before.faiss[1].build # icall.content
    /\ EngineAsBuilt
    /\ DiskHoldsBuild(icall.content)

\* C15: whenever the service is READY the vector index, the lexical index
\* and the items of both engines are of one build: equally many vectors,
\* documents and items, the i-th of each belonging to the same item.
C15_IndicesAligned ==
    initialized =>
        /\ engine.index # None /\ engine.bm25 # None
        /\ engine.index[1] = engine.content_items
        /\ engine.bm25[1] = engine.keyword_items
        /\ engine.content_items = engine.keyword_items

\* every artifact is a complete file
DiskLoadable ==
    \A f \in ArtifactNames : disk[f] # None /\ disk[f][1].complete

\* C16: the artifacts a startup would load are at all times, also after a
\* save that was cut short, the complete artifacts of one build.
C16_SavedAsAPair ==
    DiskLoadable =>
        /\ disk.faiss[1].build = disk.metadata[1].build
        /\ disk.metadata[1].build = disk.keyword[1].build

\* initialize took the build path: no load was attempted or a load failed
TookBuildPath ==
    /\ icall.outcome # "none"
    /\ ~(icall.attempted_load /\ icall.embedding_loaded /\ icall.keyword_loaded)

\* C17: when the build path of initialize finds no content item it raises,
\* the service stays not initialized, no index is built from the empty
\* collection and the artifacts are as they were; initialize raises in no
\* other case.
C17_NoContentIsFatal ==
    /\ (TookBuildPath /\ icall.parsed /\ icall.content = <<>>)
       => /\ icall.outcome = "raised"
          /\ ~initialized
          /\ engine.index # Some(<<>>) /\ engine.bm25 # Some(<<>>)
          /\ engine.index # None =>
                 (icall.before.faiss # None
                  /\ engine.index = Some(icall.before.faiss[1].build))
          /\ engine.bm25 # None =>
                 (icall.before.keyword # None
                  /\ engine.bm25 = Some(icall.before.keyword[1].build))
          /\ disk = icall.before
    /\ icall.outcome = "raised" => (TookBuildPath /\ icall.parsed /\ icall.content = <<>>)

\* a startup on a deployment without a lexical artifact parsed no item and
\* raised, leaving the vector artifact in place
C17_Witness ==
    /\ icall.outcome = "raised"
    /\ icall.content = <<>>
    /\ ~initialized
    /\ icall.before.keyword = None /\ icall.before.faiss # None
    /\ disk = icall.before
    /\ engine = NoEngine

----------------------------------------------------------------------------
(* Claims about EmbeddingSearchEngine.search *)

\* C20: EmbeddingSearchEngine.search returns at most k pairs, every score
\* strictly above the similarity threshold 0.7, in descending score order,
\* and the empty sequence when no index was built or loaded.
C20_EmbeddingSearch ==
    ecall.called =>
        /\ Len(ecall.results) <= ecall.k
        /\ \A i \in 1..Len(ecall.results) : ecall.results[i].score > 70
        /\ \A i, j \in 1..Len(ecall.results) :
              i < j => ecall.results[i].score >= ecall.results[j].score
        /\ engine.index = None => ecall.results = <<>>

\* a search for 2 of 3 vectors with the model's embedding returned one pair:
\* the second-best score is exactly 0.7
C20_Witness ==
    /\ ecall.called /\ ecall.k = 2
    /\ engine.index # None /\ sims = <<90, 70, 60>>
    /\ ecall.embedding = [zero |-> FALSE, encoded |-> TRUE]
    /\ Len(ecall.results) = 1
    /\ ecall.results[1].score > 70

----------------------------------------------------------------------------
(* Claims about KeywordSearchEngine.search and the empty query *)

\* the position of item in the engine's items
ItemIndex(item) == IndexOf(engine.keyword_items, item)

\* C21: KeywordSearchEngine.search returns at most k pairs, every score
\* strictly positive, in descending score order, and of two documents with
\* the same score the one with the lower index comes first.
C21_KeywordSearchOrder ==
    kcall.called =>
        /\ Len(kcall.results) <= kcall.k
        /\ \A i \in 1..Len(kcall.results) : kcall.results[i].score > 0
        /\ \A i, j \in 1..Len(kcall.results) :
              i < j =>
                 /\ kcall.results[i].score >= kcall.results[j].score
                 /\ kcall.results[i].score = kcall.results[j].score
                       => ItemIndex(kcall.results[i].item) < ItemIndex(kcall.results[j].item)

\* a text of white space only, or of no character at all
IsBlank(text) == \A i \in 1..Len(text) : SubSeq(text, i, i) \in {" ", "\n", "\t"}

\* C24: for an empty or white-space-only text get_embedding returns the zero
\* vector without asking the embedding model, and on a built index such a
\* query gets an empty result from the vector search and an empty result
\* from the lexical search.
C24_BlankQueryFindsNothing ==
    /\ (ecall.called /\ IsBlank(ecall.query)) =>
          /\ ecall.embedding.zero
          /\ ~ecall.embedding.encoded
          /\ ecall.results = <<>>
    /\ (kcall.called /\ IsBlank(kcall.query)) => kcall.results = <<>>

\* a white-space-only query on an index of three vectors, each of which the
\* model's vector for a query would match, and whose documents all hold the
\* indexed token: the model was not asked and nothing was returned
C24_Witness ==
    /\ ecall.called /\ ecall.query = " \n "
    /\ engine.index # None /\ engine.bm25 # None
    /\ sims = <<90, 90, 90>>
    /\ tokenScores = <<20, 10, 20>>
    /\ ~ecall.embedding.encoded
    /\ ecall.results = <<>>

----------------------------------------------------------------------------
(* Claims about concurrent queries *)

\* the response the call of a caller gets when it is the only one running
AloneResponse(call) ==
    IF call.kind = "llm" THEN LlmSearch(call.query, call.max_results).response
    ELSE ServiceSearch(call.query, call.max_results)

\* C22: once the service is ready, no step of search or llm_search changes
\* the vector index, the lexical index, the content items or the initialized
\* flag, and however the calls of concurrent callers interleave, each gets
\* the response it would get when run alone.
C22_QueriesDoNotInterfere ==
    /\ [][initialized => UNCHANGED <<semRanked, lexRanked, engine, initialized>>]_vars
    /\ [](\A c \in Callers :
             callers[c].pc = "done" => callers[c].response = AloneResponse(callers[c]))

\* a search has its response while an llm_search for another query, whose
\* hybrid search found other results, is between that search and its response
C22_Witness ==
    /\ initialized
    /\ \E c, d \in Callers :
          /\ callers[c].pc = "done" /\ callers[c].kind = "search"
          /\ callers[c].response.results # <<>>
          /\ callers[d].pc = "respond" /\ callers[d].kind = "llm"
          /\ callers[d].query # callers[c].query
          /\ callers[d].found.results # callers[c].found.results

----------------------------------------------------------------------------
(* Claims about the initialized flag *)

\* initialize ended with an exception: the ValueError of the empty content,
\* an exception of the parser, or one of a write
InitializeRaised == icall.outcome \in {"raised", "parse_raised", "interrupted"}

\* both loads of this call succeeded and the engines hold what they read
BothLoaded ==
    /\ icall.attempted_load /\ icall.embedding_loaded /\ icall.keyword_loaded
    /\ EngineAsLoaded

\* C23: within a process the initialized flag changes only from false to
\* true, in an initialize that loaded both indices or built and persisted
\* both; an initialize that raised while parsing, building or saving left
\* the flag false and the process makes no second attempt.
C23_InitializedOnlyWhenReady ==
    /\ [](initialized =>
             \/ (icall.outcome = "loaded" /\ BothLoaded /\ icall.parsed)
             \/ (icall.outcome = "built" /\ EngineAsBuilt
                 /\ DiskHoldsBuild(icall.content)))
    /\ [](InitializeRaised => ~initialized)
    /\ [][initialized' # initialized =>
             \/ (~initialized /\ initialized' /\ icall.outcome = "none"
                 /\ icall'.outcome \in {"loaded", "built"})
             \/ (engine' = NoEngine /\ icall' = NoInitialize)]_vars
    /\ [][InitializeRaised => (icall' = NoInitialize /\ disk' = disk)]_vars

\* the load succeeded for both indices but the parser raised: initialize
\* raised with both indices in memory and the flag still false
C23_Witness ==
    /\ icall.outcome = "parse_raised"
    /\ icall.attempted_load /\ icall.embedding_loaded /\ icall.keyword_loaded
    /\ engine.index # None /\ engine.bm25 # None
    /\ ~initialized

----------------------------------------------------------------------------
(* Claims about the weights and the scores of service.search *)

\* the results of the hybrid search of the last service.search call
FoundResults == svc.found.results

\* the item is first in the semantic list and first in the keyword list of
\* the call
FirstInBoth(id) ==
    /\ svc.found.semantic # <<>> /\ svc.found.semantic[1] = id
    /\ svc.found.keyword # <<>> /\ svc.found.keyword[1].id = id

\* C25: the two weights determine_search_strategy returns are positive and
\* sum to 1, so every relevance score service.search returns is above 0 and
\* at most 1, and is 1 only for an item that is first in both lists.
C25_WeightsAndScoreRange ==
    (svc.called /\ initialized) =>
        /\ svc.strategy.semantic_weight > 0
        /\ svc.strategy.keyword_weight > 0
        /\ svc.strategy.semantic_weight + svc.strategy.keyword_weight = 10
        /\ \A i \in 1..Len(svc.response.results) :
              LET r == svc.response.results[i]
              IN /\ r.rrf_score > 0
                 /\ r.rrf_score <= One
                 /\ r.rrf_score = One => FirstInBoth(r.id)

\* a search under the fallback weights 0.8 and 0.2 returned an item with
\* score 1, first in both lists, and one with a lower score
C25_Witness ==
    /\ svc.called /\ initialized /\ ~svc.raised
    /\ svc.strategy.semantic_weight = 8 /\ svc.strategy.keyword_weight = 2
    /\ Len(svc.response.results) >= 2
    /\ svc.response.results[1].rrf_score = One
    /\ FirstInBoth(svc.response.results[1].id)
    /\ svc.response.results[2].rrf_score < One

\* C26: under the fallback analysis the strategy is 0.8 semantic and 0.2
\* keyword whatever terms the fallback extracted; the 0.6/0.4 and 0.7/0.3
\* weights are never used with it.
C26_FallbackWeights ==
    (svc.called /\ initialized /\ analyzerRaises) =>
        /\ svc.analysis.confidence = Some(FALLBACK_ANALYSIS_CONFIDENCE)
        /\ svc.strategy.semantic_weight = 8
        /\ svc.strategy.keyword_weight = 2
        /\ svc.strategy.search_terms = svc.analysis.search_terms

\* the analyzer raised, the fallback extracted terms, and the search ran
\* with the weights 0.8 and 0.2
C26_Witness ==
    /\ svc.called /\ initialized /\ analyzerRaises
    /\ svc.analysis.search_terms # <<>>
    /\ svc.strategy.semantic_weight = 8 /\ svc.strategy.keyword_weight = 2
    /\ "engines" \in svc.invoked

----------------------------------------------------------------------------
(* Claims about the responses of llm_search *)

\* C27: when the search stage of an llm_search call ends with status error,
\* the response of llm_search has status error too, not insufficient_info.
C27_SearchErrorIsLlmError ==
    (lcall.called /\ initialized /\ lcall.search.status = "error")
        => lcall.response.status = "error"

\* select_best_result_with_llm was called and the selected_index of the
\* dict it returned is at or beyond the number of candidates
SelectorIndexBeyond ==
    /\ lcall.selected
    /\ lcall.llm_result.selected_index # None
    /\ lcall.llm_result.selected_index[1] >= Len(lcall.search.results)

----------------------------------------------------------------------------
(* Claims about the order of the search terms *)

\* the sequences holding the entries of seq in some order
PermutationsOf(seq) ==
    {[i \in 1..Len(seq) |-> seq[f[i]]] :
        f \in {g \in [1..Len(seq) -> 1..Len(seq)] :
                  \A i, j \in 1..Len(seq) : i # j => g[i] # g[j]}}

\* C29: for the same indices, query, k and weights HybridSearchEngine.search
\* returns the same ranked list (items, order, scores and match types) for
\* every order of the same non-empty search terms.
C29_TermOrderIrrelevant ==
    (hcall.called /\ hcall.search_terms # <<>>) =>
        \A terms \in PermutationsOf(hcall.search_terms) :
            HybridSearch(hcall.query, hcall.k, hcall.semantic_weight,
                         hcall.keyword_weight, terms).results = hcall.results

----------------------------------------------------------------------------
(* Claims about the endpoints *)

\* C30: a request to /search or /llm-search whose query is empty or white
\* space only is answered with HTTP status 400 and the detail 'Query cannot
\* be empty', and the service's search or llm_search is not called.
C30_BlankQueryIsBadRequest ==
    (request.called /\ IsBlank(request.query)) =>
        /\ request.status_code = 400
        /\ request.detail = "Query cannot be empty"
        /\ ~request.service_called

====
